---- MODULE Spec2Model ----
(***************************************************************************)
(* Model of kinkernel: the cell execution contract (BaseCell.run with its  *)
(* per-instance asyncio.Lock).                                             *)
(*                                                                         *)
(* Python values are tagged records [t, n, s] so that dynamically typed    *)
(* fields (a string where an integer is declared, None where a model is    *)
(* expected) can be represented and compared.                              *)
(***************************************************************************)
EXTENDS Integers, Sequences, FiniteSets, TLC

\* Number of run() calls the environment issues.
MaxCalls == 2

\* Cell instances (objects of one concrete cell type, ConcreteCell).
Instances == {"cellA", "cellB"}
FirstInstance == "cellA"
Calls == 1..MaxCalls

----------------------------------------------------------------------------
(* Python values *)

PyInt(k) == [t |-> "int", n |-> k, s |-> ""]
PyStr(str) == [t |-> "str", n |-> 0, s |-> str]
PyNone == [t |-> "none", n |-> 0, s |-> ""]
\* a key that is not in a dict / JSON object
Absent == [t |-> "absent", n |-> 0, s |-> ""]

Digits == <<"0", "1", "2", "3", "4", "5", "6", "7", "8", "9">>

\* str(int) for a non-negative integer
RECURSIVE IntToStr(_)
IntToStr(k) ==
    IF k < 10 THEN Digits[k + 1] ELSE IntToStr(k \div 10) \o Digits[(k % 10) + 1]

\* int(str) as pydantic's lax mode does it: only a string of digits parses
IsDigitStr(str) == \E d \in 1..10 : Digits[d] = str
DigitStrToInt(str) == (CHOOSE d \in 1..10 : Digits[d] = str) - 1

----------------------------------------------------------------------------
(* Exceptions *)

NoExc == [cls |-> "none", msg |-> ""]
Raise(cls, msg) == [cls |-> cls, msg |-> msg]

\* Classes that derive from BaseException but not from Exception.
BaseOnlyClasses == {"CancelledError", "KeyboardInterrupt", "SystemExit"}

\* isinstance(e, Exception): what `except Exception` catches; ValidationError
\* is an Exception subclass, caught one clause earlier with the same body.
IsInstanceOfValidationError(e) == e.cls = "ValidationError"
IsInstanceOfException(e) == e.cls \notin BaseOnlyClasses /\ e.cls # "none"

----------------------------------------------------------------------------
(* Shapes: the pydantic models of the test cell *)

\* class TestInputModel(BaseModel): x: int; y: int
TestInputModel == [name |-> "TestInputModel", fields |-> <<"x", "y">>]
\* class TestOutputModel(BaseModel): result: int
TestOutputModel == [name |-> "TestOutputModel", fields |-> <<"result">>]
\* the value of input_format / output_format after `cell.xxx_format = None`
NoShape == [name |-> "None", fields |-> <<>>]

\* Validation of one `int` field: the typed value, or the error line.
ValidateInt(v) ==
    CASE v.t = "int" -> [ok |-> TRUE, val |-> v, err |-> ""]
      [] v.t = "str" /\ IsDigitStr(v.s) ->
            [ok |-> TRUE, val |-> PyInt(DigitStrToInt(v.s)), err |-> ""]
      [] v.t = "str" ->
            [ok |-> FALSE, val |-> v,
             err |-> "Input should be a valid integer, unable to parse string as an integer"]
      [] v.t = "absent" -> [ok |-> FALSE, val |-> v, err |-> "Field required"]
      [] OTHER -> [ok |-> FALSE, val |-> v, err |-> "Input should be a valid integer"]

\* the value a JSON object / keyword arguments hold for a field
FieldOf(doc, f) == IF f \in DOMAIN doc THEN doc[f] ELSE Absent

RECURSIVE ErrorLines(_, _, _)
ErrorLines(shape, doc, k) ==
    IF k > Len(shape.fields) THEN <<>>
    ELSE LET f == shape.fields[k]
             r == ValidateInt(FieldOf(doc, f))
         IN (IF r.ok THEN <<>> ELSE << f \o "\n  " \o r.err >>)
                \o ErrorLines(shape, doc, k + 1)

RECURSIVE JoinLines(_)
JoinLines(seq) ==
    IF seq = <<>> THEN "" ELSE "\n" \o Head(seq) \o JoinLines(Tail(seq))

\* str(ValidationError): "<n> validation error(s) for <Model>" and one entry
\* per failing field.
ValidationErrorText(shape, lines) ==
    IntToStr(Len(lines))
        \o (IF Len(lines) = 1 THEN " validation error for " ELSE " validation errors for ")
        \o shape.name \o JoinLines(lines)

\* shape(**doc): every declared field validated, undeclared keys ignored.
ValidateModel(shape, doc) ==
    LET lines == ErrorLines(shape, doc, 1)
    IN IF lines = <<>>
       THEN [ok |-> TRUE,
             val |-> [f \in {shape.fields[k] : k \in 1..Len(shape.fields)} |->
                        ValidateInt(FieldOf(doc, f)).val],
             exc |-> NoExc]
       ELSE [ok |-> FALSE, val |-> doc,
             exc |-> Raise("ValidationError", ValidationErrorText(shape, lines))]

\* A model instance (or another Python object): its class and its fields.
ModelObject(cls, fields) == [cls |-> cls, fields |-> fields]

\* cls.model_validate_json(text): JSON syntax first, then the kind of JSON
\* value (a JSON string is well-formed JSON but not an object), then the
\* fields.
ModelValidateJson(shape, text) ==
    IF text.quoted > 0
    THEN [ok |-> FALSE, obj |-> ModelObject("none", text.obj),
          exc |-> Raise("ValidationError",
                        ValidationErrorText(shape, << "  Input should be an object" >>))]
    ELSE IF ~text.wellformed
    THEN [ok |-> FALSE, obj |-> ModelObject("none", text.obj),
          exc |-> Raise("ValidationError",
                        ValidationErrorText(shape, << "  Invalid JSON: EOF while parsing an object" >>))]
    ELSE LET r == ValidateModel(shape, text.obj)
         IN [ok |-> r.ok, obj |-> ModelObject(shape.name, r.val), exc |-> r.exc]

\* obj.model_dump(): the fields of a model; any other object has no such
\* attribute.
IsModel(obj) == obj.cls \in {TestInputModel.name, TestOutputModel.name}
ModelDump(obj) ==
    IF IsModel(obj)
    THEN [ok |-> TRUE, val |-> obj.fields, exc |-> NoExc]
    ELSE [ok |-> FALSE, val |-> obj.fields,
          exc |-> Raise("AttributeError",
                        "'" \o obj.cls \o "' object has no attribute 'model_dump'")]

\* json of one value
ValueToJson(v) ==
    CASE v.t = "int" -> IntToStr(v.n)
      [] v.t = "str" -> "\"" \o v.s \o "\""
      [] OTHER -> "null"

\* TestOutputModel.model_dump_json(): compact JSON of the declared fields.
ModelDumpJson(obj) == "{\"result\":" \o ValueToJson(obj.fields["result"]) \o "}"

----------------------------------------------------------------------------
(* Input texts handed to run *)

\* A text: the JSON object it spells (obj), whether the object is spelled to
\* its end (wellformed), and how many times the whole was encoded as a JSON
\* string (quoted; 0 for the bare object).
JsonText(wf, xv, yv) == [wellformed |-> wf, quoted |-> 0, obj |-> [x |-> xv, y |-> yv]]

\* '{"x": 1, "y": 2}'
TextValid == JsonText(TRUE, PyInt(1), PyInt(2))
\* '{"x": "not_a_number", "y": 2}'
TextWrongType == JsonText(TRUE, PyStr("not_a_number"), PyInt(2))
\* '{"x": 1}'
TextMissingField == JsonText(TRUE, PyInt(1), Absent)
\* '{"x": 1, "y": 2'
TextMalformed == JsonText(FALSE, PyInt(1), PyInt(2))

InputTexts == {TextValid, TextWrongType, TextMissingField, TextMalformed}
NoText == JsonText(FALSE, Absent, Absent)
NoInput == ModelObject("none", [x |-> Absent, y |-> Absent])
NoOutput == ModelObject("none", [result |-> Absent])

\* Whether the input shape accepts a text.
ConformsToInput(text) == ModelValidateJson(TestInputModel, text).ok

----------------------------------------------------------------------------
(* The response envelope *)

ERROR == "error"
SUCCESS == "success"

ResponseModel(type, content) == [type |-> type, content |-> content]
NoResponse == ResponseModel("none", PyNone)

\* Variant: the content is dumped under the key "message".
ResponseDumpJsonMessageKey(resp) ==
    << <<"type", PyStr(resp.type)>>, <<"message", resp.content>> >>

\* response.model_dump_json(): the fields in declaration order, the enum by
\* its value.
ResponseDumpJson(resp) == << <<"type", PyStr(resp.type)>>, <<"content", resp.content>> >>

\* json.loads of an object: a dict with one entry per key (the last wins).
JsonLoads(pairs) ==
    [k \in {pairs[j][1] : j \in DOMAIN pairs} |->
        pairs[CHOOSE j \in DOMAIN pairs :
                 /\ pairs[j][1] = k
                 /\ \A j2 \in DOMAIN pairs : pairs[j2][1] = k => j2 <= j][2]]

NoDict == [k \in {} |-> PyNone]

----------------------------------------------------------------------------
(* The body of run: the try block and its handlers *)

\* Variant: the check looks at the input format only.
ShapeCheckInputOnly(inF, outF) ==
    IF inF = NoShape
    THEN Raise("NotImplementedError", "Input and output formats must be defined.")
    ELSE NoExc

\* if self.input_format is None or self.output_format is None: raise ...
ShapeCheck(inF, outF) ==
    IF inF = NoShape \/ outF = NoShape
    THEN Raise("NotImplementedError", "Input and output formats must be defined.")
    ELSE NoExc

\* Variant: after the shape check the text is loaded into the model without
\* validation.
ValidateInputPhaseUnvalidated(inF, outF, text) ==
    LET chk == ShapeCheck(inF, outF)
    IN IF chk # NoExc
       THEN [ok |-> FALSE, parsed |-> FALSE, obj |-> NoInput, exc |-> chk]
       ELSE [ok |-> TRUE, parsed |-> TRUE, obj |-> ModelObject(inF.name, text.obj),
             exc |-> NoExc]

\* The shape check followed by input_format.model_validate_json(input_json).
\* parsed says whether model_validate_json was called at all.
ValidateInputPhase(inF, outF, text) ==
    LET chk == ShapeCheck(inF, outF)
    IN IF chk # NoExc
       THEN [ok |-> FALSE, parsed |-> FALSE, obj |-> NoInput, exc |-> chk]
       ELSE LET r == ModelValidateJson(inF, text)
            IN [ok |-> r.ok, parsed |-> TRUE,
                obj |-> (IF r.ok THEN r.obj ELSE NoInput), exc |-> r.exc]

\* Variant: the returned value is serialized as it is, without revalidation.
RevalidateOutputSkipped(outF, obj) == [ok |-> TRUE, obj |-> obj, exc |-> NoExc]

\* output_format(**output_data.model_dump()): the callee expression is
\* evaluated, then the argument (model_dump), then the call is made.
RevalidateOutput(outF, obj) ==
    LET d == ModelDump(obj)
    IN CASE ~d.ok -> [ok |-> FALSE, obj |-> NoOutput, exc |-> d.exc]
         [] outF = NoShape ->
               [ok |-> FALSE, obj |-> NoOutput,
                exc |-> Raise("TypeError", "'NoneType' object is not callable")]
         [] OTHER ->
               LET r == ValidateModel(outF, d.val)
               IN [ok |-> r.ok,
                   obj |-> (IF r.ok THEN ModelObject(outF.name, r.val) ELSE NoOutput),
                   exc |-> r.exc]

\* Variant: the content is str(output_data), not its JSON.
SuccessResponseStr(obj) ==
    ResponseModel(SUCCESS, PyStr("result=" \o ValueToJson(obj.fields["result"])))

\* ResponseModel(type=ResponseType.SUCCESS, content=output_data.model_dump_json())
SuccessResponse(obj) == ResponseModel(SUCCESS, PyStr(ModelDumpJson(obj)))

\* Variant: the content is the exception's class name, not str(e).
ErrorResponseClassName(e) == ResponseModel(ERROR, PyStr(e.cls))

\* ResponseModel(type=ResponseType.ERROR, content=str(e)), the body of both
\* except clauses.
ErrorResponse(e) == ResponseModel(ERROR, PyStr(e.msg))

\* Variant: only the first except clause exists.
CatchesValidationErrorOnly(e) == IsInstanceOfValidationError(e)

\* except ValidationError as e / except Exception as e: whether one of the
\* two clauses matches the exception.
Catches(e) == IsInstanceOfValidationError(e) \/ IsInstanceOfException(e)

\* output: dict = json.loads(response.model_dump_json())
OutputDict(resp) == JsonLoads(ResponseDumpJson(resp))

----------------------------------------------------------------------------
(* The execution gate: asyncio.Lock *)

NewLock == [locked |-> FALSE, waiters |-> <<>>]

\* Variant: one lock held by the cell type and shared by its instances.
GateOfType(i) == FirstInstance

\* The gate a call on instance i uses: self.async_mutex, made in __init__.
GateOf(i) == i

\* Variant: acquire looks at the waiters only, not at the locked flag.
CanAcquireNoFlag(m) == m.waiters = <<>>

\* Lock.acquire takes the lock at once when it is free and nobody waits.
CanAcquire(m) == ~m.locked /\ m.waiters = <<>>
Locked(m) == [m EXCEPT !.locked = TRUE]
Enqueued(m, c) == [m EXCEPT !.waiters = Append(@, c)]
\* Lock.release clears the flag and wakes the first waiter, which takes the
\* lock when it resumes.
Released(m) == [m EXCEPT !.locked = FALSE]
Woken(m, c) == ~m.locked /\ m.waiters # <<>> /\ Head(m.waiters) = c
Resumed(m) == [m EXCEPT !.locked = TRUE, !.waiters = Tail(@)]

\* Variant: acquire and release called by hand, the release skipped when an
\* exception passes through.
GateOnExitNoFinally(m, e) == IF e = NoExc THEN Released(m) ELSE m

\* __aexit__ of `async with self.async_mutex`: runs on every way out of the
\* block, whether or not an exception e passes through it.
GateOnExit(m, e) == Released(m)

----------------------------------------------------------------------------
(* The execution step, _execute *)

Returns(obj) == [kind |-> "return", obj |-> obj, exc |-> NoExc]
Raises(e) == [kind |-> "raise", obj |-> NoOutput, exc |-> e]

\* ConcreteCell._execute: TestOutputModel(result=input_data.x + input_data.y)
Execute(input) ==
    ModelObject(TestOutputModel.name,
                [result |-> PyInt(input.fields["x"].n + input.fields["y"].n)])

\* What a user-supplied step can do with its input: return the validated
\* model, return an object built by hand (a digit string or another string
\* where the integer is declared), return None, raise an Exception, or
\* raise a BaseException that is not an Exception.
StepOutcomes(input) ==
    { Returns(Execute(input)),
      Returns(ModelObject(TestOutputModel.name,
                          [result |-> PyStr(IntToStr(Execute(input).fields["result"].n))])),
      Returns(ModelObject(TestOutputModel.name, [result |-> PyStr("abc")])),
      Returns(ModelObject("NoneType", [result |-> Absent])),
      Raises(Raise("Exception", "General error")),
      Raises(Raise("CancelledError", "")) }

\* The output shape accepts the object: it is a model whose fields validate.
ConformsToOutput(obj) == IsModel(obj) /\ ValidateModel(TestOutputModel, obj.fields).ok
\* The object already is a valid instance: validation leaves its fields as
\* they are.
IsValidInstance(obj) ==
    /\ ConformsToOutput(obj)
    /\ ValidateModel(TestOutputModel, obj.fields).val = obj.fields

----------------------------------------------------------------------------
(* State *)

VARIABLES
    input_format,     \* per instance: self.input_format
    output_format,    \* per instance: self.output_format
    async_mutex,      \* per gate: the asyncio.Lock (locked flag, waiters)
    pc,               \* per call: where the coroutine of run stands
    cell,             \* per call: the instance run was called on (self)
    input_json,       \* per call: the argument of run
    input_data,       \* per call: the parsed input handed to _execute
    output_data,      \* per call: what _execute returned
    validated_output, \* per call: output_data after output_format(**...)
    exc,              \* per call: the exception raised inside the try block
    response,         \* per call: the ResponseModel built
    output,           \* per call: the dict run returned
    validate_calls,   \* per call: calls of model_validate_json
    execute_calls,    \* per call: calls of _execute
    awaited           \* per call: the call of run its step awaits (0: none)

cellVars == << input_format, output_format, async_mutex, pc, cell, input_json,
               input_data, output_data, validated_output, exc, response, output,
               validate_calls, execute_calls, awaited >>

\* State of the components modelled further down. Each has its own
\* specification; while run is exercised (Spec) they stay as they start.
VARIABLES
    class_stmt,       \* the class statement being evaluated (a subclass of BaseCell)
    class_result,     \* what the class statement gave: the class, or the exception
    instance_result,  \* what calling the new class gave: an instance, or the exception
    assigned,         \* what was assigned to the class's fields after its definition
    introspection     \* the last call of a get_* class method: what had been
                      \* assigned by then, and what the call gave

typeVars == << class_stmt, class_result, instance_result, assigned, introspection >>

VARIABLES
    document,         \* the schema document as its owner wrote it
    heap,             \* the dicts and lists of the document, by address
    argument,         \* the owner's reference to the document (its root)
    deref_log         \* the calls of replace_refs_with_defs made on it: the
                      \* heap each found, and what it returned or raised

derefVars == << document, heap, argument, deref_log >>

VARIABLES
    function_cell,    \* the OpenAiFunctionCell: self.cell, self.name, self.description
    args_result,      \* what reading the property args gave
    ainvoke_log       \* the calls of ainvoke: the input, the texts run was
                      \* called with, what run returned, what ainvoke gave

adapterVars == << function_cell, args_result, ainvoke_log >>

outside == << typeVars, derefVars, adapterVars >>
\* what the evaluation of a class statement leaves alone
outsideTypes == << cellVars, derefVars, adapterVars >>
\* what replace_refs_with_defs leaves alone
outsideDeref == << cellVars, typeVars, adapterVars >>
\* what the adapter leaves alone
outsideAdapter == << cellVars, typeVars, derefVars >>

vars == << cellVars, outside >>

NoCell == "none"

\* The phases in which a call is inside `async with self.async_mutex`.
GatePhases == {"validating_input", "executing", "validating_output", "responding"}
\* run is over for the caller: it returned a dict, or an exception came out.
EndPhases == {"returned", "raised"}

InitCell ==
    /\ input_format = [i \in Instances |-> TestInputModel]
    /\ output_format = [i \in Instances |-> TestOutputModel]
    /\ async_mutex = [i \in Instances |-> NewLock]
    /\ pc = [c \in Calls |-> "idle"]
    /\ cell = [c \in Calls |-> NoCell]
    /\ input_json = [c \in Calls |-> NoText]
    /\ input_data = [c \in Calls |-> NoInput]
    /\ output_data = [c \in Calls |-> NoOutput]
    /\ validated_output = [c \in Calls |-> NoOutput]
    /\ exc = [c \in Calls |-> NoExc]
    /\ response = [c \in Calls |-> NoResponse]
    /\ output = [c \in Calls |-> NoDict]
    /\ validate_calls = [c \in Calls |-> 0]
    /\ execute_calls = [c \in Calls |-> 0]
    /\ awaited = [c \in Calls |-> 0]

\* No class statement has been evaluated yet.
NoClassStmt ==
    [name |-> "", base |-> "", role |-> Absent, description |-> Absent,
     input_format |-> Absent, output_format |-> Absent, has_execute |-> FALSE]
NoOutcome == [kind |-> "none", exc |-> NoExc]

NothingAssigned ==
    [role |-> Absent, description |-> Absent, input_format |-> Absent,
     output_format |-> Absent]
NoIntrospection ==
    [op |-> "none", before |-> NothingAssigned, kind |-> "none", exc |-> NoExc,
     v |-> PyNone, text |-> <<>>]

InitTypes ==
    /\ class_stmt = NoClassStmt
    /\ class_result = NoOutcome
    /\ instance_result = NoOutcome
    /\ assigned = NothingAssigned
    /\ introspection = NoIntrospection

\* No schema document has been built yet.
NoDocument == [k |-> "none", v |-> <<>>]
NoReference == [k |-> "none", a |-> 0, w |-> <<>>]
DerefIdle ==
    /\ document = NoDocument
    /\ heap = <<>>
    /\ argument = NoReference
    /\ deref_log = <<>>

\* No adapter has been built yet.
NoFunctionCell == [cell |-> "none", name |-> PyNone, description |-> PyNone]
NoResult == [kind |-> "none", exc |-> NoExc, h |-> <<>>, v |-> NoReference]
AdapterIdle ==
    /\ function_cell = NoFunctionCell
    /\ args_result = NoResult
    /\ ainvoke_log = <<>>

Init == InitCell /\ InitTypes /\ DerefIdle /\ AdapterIdle

----------------------------------------------------------------------------
(* Operations *)

\* A test nulls one shape of an instance: cell.input_format = None or
\* cell.output_format = None (each test nulls one of the two).
NullInputFormat(i) ==
    /\ UNCHANGED << outside, awaited >>
    /\ input_format[i] # NoShape /\ output_format[i] # NoShape
    /\ input_format' = [input_format EXCEPT ![i] = NoShape]
    /\ UNCHANGED << output_format, async_mutex, pc, cell, input_json, input_data,
                    output_data, validated_output, exc, response, output,
                    validate_calls, execute_calls >>

NullOutputFormat(i) ==
    /\ UNCHANGED << outside, awaited >>
    /\ input_format[i] # NoShape /\ output_format[i] # NoShape
    /\ output_format' = [output_format EXCEPT ![i] = NoShape]
    /\ UNCHANGED << input_format, async_mutex, pc, cell, input_json, input_data,
                    output_data, validated_output, exc, response, output,
                    validate_calls, execute_calls >>

\* await cell.run(text), up to the gate: the call takes the gate at once or
\* joins its waiters. Calls are numbered in the order they are issued, and
\* the instances in the order they are first used (both are only names).
Call(c, i, text) ==
    /\ UNCHANGED << outside, awaited >>
    /\ pc[c] = "idle"
    /\ \A d \in Calls : d < c => pc[d] # "idle"
    /\ i # FirstInstance => \E d \in Calls : cell[d] = FirstInstance
    /\ cell' = [cell EXCEPT ![c] = i]
    /\ input_json' = [input_json EXCEPT ![c] = text]
    /\ LET m == async_mutex[GateOf(i)]
       IN IF CanAcquire(m)
          THEN /\ async_mutex' = [async_mutex EXCEPT ![GateOf(i)] = Locked(m)]
               /\ pc' = [pc EXCEPT ![c] = "validating_input"]
          ELSE /\ async_mutex' = [async_mutex EXCEPT ![GateOf(i)] = Enqueued(m, c)]
               /\ pc' = [pc EXCEPT ![c] = "waiting"]
    /\ UNCHANGED << input_format, output_format, input_data, output_data,
                    validated_output, exc, response, output, validate_calls,
                    execute_calls >>

\* A waiter woken by release resumes inside acquire and takes the gate.
Resume(c) ==
    /\ UNCHANGED << outside, awaited >>
    /\ pc[c] = "waiting"
    /\ Woken(async_mutex[GateOf(cell[c])], c)
    /\ async_mutex' = [async_mutex EXCEPT ![GateOf(cell[c])] = Resumed(@)]
    /\ pc' = [pc EXCEPT ![c] = "validating_input"]
    /\ UNCHANGED << input_format, output_format, cell, input_json, input_data,
                    output_data, validated_output, exc, response, output,
                    validate_calls, execute_calls >>

\* An exception e raised inside the try block of call c: an except clause
\* builds the error response, or e leaves run through both with-blocks.
Fails(c, e) ==
    /\ exc' = [exc EXCEPT ![c] = e]
    /\ IF Catches(e)
       THEN /\ response' = [response EXCEPT ![c] = ErrorResponse(e)]
            /\ pc' = [pc EXCEPT ![c] = "responding"]
            /\ UNCHANGED async_mutex
       ELSE /\ pc' = [pc EXCEPT ![c] = "raised"]
            /\ async_mutex' = [async_mutex EXCEPT ![GateOf(cell[c])] = GateOnExit(@, e)]
            /\ UNCHANGED response

\* The shape check and the parse of the input; on success _execute is called.
ValidateInput(c) ==
    /\ UNCHANGED << outside, awaited >>
    /\ pc[c] = "validating_input"
    /\ LET r == ValidateInputPhase(input_format[cell[c]], output_format[cell[c]],
                                   input_json[c])
       IN /\ validate_calls' = [validate_calls EXCEPT ![c] = @ + (IF r.parsed THEN 1 ELSE 0)]
          /\ IF r.ok
             THEN /\ input_data' = [input_data EXCEPT ![c] = r.obj]
                  /\ execute_calls' = [execute_calls EXCEPT ![c] = @ + 1]
                  /\ pc' = [pc EXCEPT ![c] = "executing"]
                  /\ UNCHANGED << exc, response, async_mutex >>
             ELSE /\ Fails(c, r.exc)
                  /\ UNCHANGED << input_data, execute_calls >>
    /\ UNCHANGED << input_format, output_format, cell, input_json, output_data,
                    validated_output, output >>

\* _execute returns a value.
StepReturns(c) ==
    /\ UNCHANGED << outside, awaited >>
    /\ pc[c] = "executing"
    /\ \E o \in StepOutcomes(input_data[c]) :
          /\ o.kind = "return"
          /\ output_data' = [output_data EXCEPT ![c] = o.obj]
    /\ pc' = [pc EXCEPT ![c] = "validating_output"]
    /\ UNCHANGED << input_format, output_format, async_mutex, cell, input_json,
                    input_data, validated_output, exc, response, output,
                    validate_calls, execute_calls >>

\* _execute raises.
StepRaises(c) ==
    /\ UNCHANGED << outside, awaited >>
    /\ pc[c] = "executing"
    /\ \E o \in StepOutcomes(input_data[c]) :
          /\ o.kind = "raise"
          /\ Fails(c, o.exc)
    /\ UNCHANGED << input_format, output_format, cell, input_json, input_data,
                    output_data, validated_output, output, validate_calls,
                    execute_calls >>

\* The returned value is validated again and the success response built.
ValidateOutput(c) ==
    /\ UNCHANGED << outside, awaited >>
    /\ pc[c] = "validating_output"
    /\ LET r == RevalidateOutput(output_format[cell[c]], output_data[c])
       IN IF r.ok
          THEN /\ validated_output' = [validated_output EXCEPT ![c] = r.obj]
               /\ response' = [response EXCEPT ![c] = SuccessResponse(r.obj)]
               /\ pc' = [pc EXCEPT ![c] = "responding"]
               /\ UNCHANGED << exc, async_mutex >>
          ELSE /\ Fails(c, r.exc)
               /\ UNCHANGED validated_output
    /\ UNCHANGED << input_format, output_format, cell, input_json, input_data,
                    output_data, output, validate_calls, execute_calls >>

\* The with-blocks are left, the gate released and the dict returned.
Return(c) ==
    /\ UNCHANGED << outside, awaited >>
    /\ pc[c] = "responding"
    /\ async_mutex' = [async_mutex EXCEPT ![GateOf(cell[c])] = GateOnExit(@, NoExc)]
    /\ output' = [output EXCEPT ![c] = OutputDict(response[c])]
    /\ pc' = [pc EXCEPT ![c] = "returned"]
    /\ UNCHANGED << input_format, output_format, cell, input_json, input_data,
                    output_data, validated_output, exc, response, validate_calls,
                    execute_calls >>

Next ==
    \/ \E i \in Instances : NullInputFormat(i)
    \/ \E i \in Instances : NullOutputFormat(i)
    \/ \E c \in Calls, i \in Instances, text \in InputTexts : Call(c, i, text)
    \/ \E c \in Calls : Resume(c)
    \/ \E c \in Calls : ValidateInput(c)
    \/ \E c \in Calls : StepReturns(c)
    \/ \E c \in Calls : StepRaises(c)
    \/ \E c \in Calls : ValidateOutput(c)
    \/ \E c \in Calls : Return(c)

Spec == Init /\ [][Next]_vars

\* The event loop runs every task that is ready: a step of run that needs
\* nothing but the loop (a woken waiter taking the gate, the two
\* validations, the return) is taken in the end; a call is at one of these
\* at a time. _execute is the subclass's: nothing makes it come back.
SpecFair ==
    /\ Spec
    /\ \A c \in Calls :
          WF_vars(Resume(c) \/ ValidateInput(c) \/ ValidateOutput(c) \/ Return(c))

\* A step that awaits run: _execute of call c reaches `await x.run(text)`
\* on instance i. The inner call d runs up to the gate of i at once, and
\* the step of c goes on only when d is over.
StepAwaitsRun(c, i, text) ==
    /\ UNCHANGED outside
    /\ pc[c] = "executing"
    /\ i # FirstInstance => \E d \in Calls : cell[d] = FirstInstance
    /\ \E d \in Calls :
          /\ pc[d] = "idle"
          /\ \A b \in Calls : b < d => pc[b] # "idle"
          /\ awaited' = [awaited EXCEPT ![c] = d]
          /\ cell' = [cell EXCEPT ![d] = i]
          /\ input_json' = [input_json EXCEPT ![d] = text]
          /\ LET m == async_mutex[GateOf(i)]
             IN IF CanAcquire(m)
                THEN /\ async_mutex' = [async_mutex EXCEPT ![GateOf(i)] = Locked(m)]
                     /\ pc' = [pc EXCEPT ![c] = "awaiting_run",
                                         ![d] = "validating_input"]
                ELSE /\ async_mutex' = [async_mutex EXCEPT ![GateOf(i)] = Enqueued(m, d)]
                     /\ pc' = [pc EXCEPT ![c] = "awaiting_run", ![d] = "waiting"]
    /\ UNCHANGED << input_format, output_format, input_data, output_data,
                    validated_output, exc, response, output, validate_calls,
                    execute_calls >>

\* The awaited call is over: the step of c goes on.
InnerEnded(c) ==
    /\ UNCHANGED outside
    /\ pc[c] = "awaiting_run"
    /\ pc[awaited[c]] \in EndPhases
    /\ pc' = [pc EXCEPT ![c] = "executing"]
    /\ awaited' = [awaited EXCEPT ![c] = 0]
    /\ UNCHANGED << input_format, output_format, async_mutex, cell, input_json,
                    input_data, output_data, validated_output, exc, response,
                    output, validate_calls, execute_calls >>

\* run with cells whose step may await run.
NextNested ==
    \/ Next
    \/ \E c \in Calls, i \in Instances, text \in InputTexts : StepAwaitsRun(c, i, text)
    \/ \E c \in Calls : InnerEnded(c)

SpecNested == Init /\ [][NextNested]_vars

----------------------------------------------------------------------------
(* Properties of run *)

\* The dict run returns for a response of the given type and content text.
Envelope(type, text) == [type |-> PyStr(type), content |-> PyStr(text)]
ShapesPresent(c) ==
    input_format[cell[c]] # NoShape /\ output_format[cell[c]] # NoShape
\* The failure of call c was raised by the execution step itself.
StepRaised(c) ==
    exc[c] # NoExc /\ execute_calls[c] = 1 /\ output_data[c] = NoOutput
Responded(c) == pc[c] \in {"responding", "returned"}

C2_CallsAreSerialized ==
    \A c, d \in Calls :
        (c # d /\ cell[c] # NoCell /\ cell[c] = cell[d] /\ pc[c] \in GatePhases) =>
            /\ pc[d] \in {"waiting"} \cup EndPhases
            /\ pc[d] = "returned" => response[d].type \in {SUCCESS, ERROR}
            /\ pc[d] = "waiting" =>
                  /\ validate_calls[d] = 0
                  /\ execute_calls[d] = 0
                  /\ response[d] = NoResponse

\* One call executes while a second call on the same instance waits.
C2_Witness ==
    \E c, d \in Calls :
        /\ c # d /\ cell[c] = cell[d]
        /\ pc[c] = "executing" /\ pc[d] = "waiting"

C6_GateFreeWhenNoCallInProgress ==
    \A i \in Instances :
        (\A c \in Calls : cell[c] = i => pc[c] \in EndPhases) =>
            async_mutex[GateOf(i)] = NewLock

\* An instance whose calls ended one by a returned error envelope and one by
\* an exception leaving run.
C6_Witness ==
    \E i \in Instances : \E c, d \in Calls :
        /\ cell[c] = i /\ cell[d] = i
        /\ pc[c] = "returned" /\ response[c].type = ERROR
        /\ pc[d] = "raised"
        /\ \A e \in Calls : cell[e] = i => pc[e] \in EndPhases
        /\ async_mutex[GateOf(i)] = NewLock

\* The position of call c among the waiters of a lock (0: not waiting).
WaiterIndex(m, c) ==
    IF \E k \in DOMAIN m.waiters : m.waiters[k] = c
    THEN CHOOSE k \in DOMAIN m.waiters : m.waiters[k] = c
    ELSE 0

\* C7: the gate belongs to the instance: a call waits only behind calls on
\* its own instance (one inside the gate, or one ahead of it among the
\* waiters), never behind a call on another instance, and a gate is locked
\* only by a call on its own instance.
C7_GateIsPerInstance ==
    /\ \A c \in Calls :
          pc[c] = "waiting" =>
              LET m == async_mutex[GateOf(cell[c])]
              IN /\ WaiterIndex(m, c) > 0
                 /\ \/ Woken(m, c)
                    \/ \E d \in Calls :
                          /\ d # c /\ cell[d] = cell[c]
                          /\ \/ pc[d] \in GatePhases
                             \/ /\ pc[d] = "waiting"
                                /\ WaiterIndex(m, d) > 0
                                /\ WaiterIndex(m, d) < WaiterIndex(m, c)
    /\ \A i \in Instances :
          async_mutex[i].locked =>
              \E c \in Calls : cell[c] = i /\ pc[c] \in GatePhases

\* Two calls on different instances are in their execution phase together.
C7_Witness ==
    \E c, d \in Calls :
        /\ cell[c] # NoCell /\ cell[d] # NoCell /\ cell[c] # cell[d]
        /\ pc[c] = "executing" /\ pc[d] = "executing"

\* C8: every value run returns is a dict with exactly the keys type and
\* content, type being "success" or "error" and content a string.
C8_EnvelopeIsWellFormed ==
    \A c \in Calls :
        pc[c] = "returned" =>
            /\ DOMAIN output[c] = {"type", "content"}
            /\ output[c]["type"] \in {PyStr("success"), PyStr("error")}
            /\ output[c]["content"].t = "str"
            /\ output[c]["type"].s = SUCCESS =>
                  output[c]["content"] = PyStr(ModelDumpJson(validated_output[c]))

\* A success envelope whose content is the JSON text of a structured result.
C8_Witness ==
    \E c \in Calls :
        /\ pc[c] = "returned"
        /\ output[c]["type"] = PyStr("success")
        /\ output[c]["content"] = PyStr("{\"result\":3}")

MissingShapesText == "Input and output formats must be defined."

----------------------------------------------------------------------------
(* Type definition: the checks of BaseCell.__init_subclass__ *)

\* a class object as a Python value; s is its __name__
PyClass(name) == [t |-> "class", n |-> 0, s |-> name]
\* the classes c for which issubclass(c, BaseModel) holds
BaseModelSubclasses == {"BaseModel", "TestInputModel", "TestOutputModel"}

\* What the classes a new cell type derives from give it: BaseCell only
\* annotates the four fields and leaves _execute abstract, ConcreteCell sets
\* all of them.
BaseCellAttrs ==
    [role |-> Absent, description |-> Absent, input_format |-> Absent,
     output_format |-> Absent, has_execute |-> FALSE]
ConcreteCellAttrs ==
    [role |-> PyStr("test"), description |-> PyStr("A test cell"),
     input_format |-> PyClass("TestInputModel"),
     output_format |-> PyClass("TestOutputModel"), has_execute |-> TRUE]
BaseAttrs(base) == IF base = "ConcreteCell" THEN ConcreteCellAttrs ELSE BaseCellAttrs

\* getattr(cls, attr): the class body first, then the base class
GetAttr(stmt, attr) ==
    IF stmt[attr] # Absent THEN stmt[attr] ELSE BaseAttrs(stmt.base)[attr]
HasAttr(stmt, attr) == GetAttr(stmt, attr) # Absent

\* inspect.isabstract(cls): _execute is still the abstract method
IsAbstract(stmt) == ~(stmt.has_execute \/ BaseAttrs(stmt.base).has_execute)

\* not hasattr(cls, attr) or cls.attr is None
MissingAttrAbsentOnly(stmt, attr) == ~HasAttr(stmt, attr)
MissingAttr(stmt, attr) == ~HasAttr(stmt, attr) \/ GetAttr(stmt, attr) = PyNone

FieldMessage(stmt, attr) ==
    IF attr \in {"role", "description"}
    THEN "Subclass '" \o stmt.name \o "' must define a '" \o attr
             \o "' class variable."
    ELSE "Subclass '" \o stmt.name \o "' must define an '" \o attr
             \o "' class variable with a Pydantic model."

\* issubclass(v, BaseModel); it raises for a value that is not a class
IsSubclassOfBaseModel(v) ==
    IF v.t = "class"
    THEN [ok |-> TRUE, val |-> v.s \in BaseModelSubclasses, exc |-> NoExc]
    ELSE [ok |-> FALSE, val |-> FALSE,
          exc |-> Raise("TypeError", "issubclass() arg 1 must be a class")]

\* the check of one shape field: NoExc when it passes
FormatCheck(stmt, attr) ==
    IF MissingAttr(stmt, attr) THEN Raise("TypeError", FieldMessage(stmt, attr))
    ELSE LET sub == IsSubclassOfBaseModel(GetAttr(stmt, attr)) IN
         IF ~sub.ok THEN sub.exc
         ELSE IF ~sub.val THEN Raise("TypeError", FieldMessage(stmt, attr))
         ELSE NoExc

\* __init_subclass__: the exception it raises, NoExc when the class is accepted
InitSubclass(stmt) ==
    IF IsAbstract(stmt) THEN NoExc
    ELSE IF MissingAttr(stmt, "role")
         THEN Raise("TypeError", FieldMessage(stmt, "role"))
    ELSE IF MissingAttr(stmt, "description")
         THEN Raise("TypeError", FieldMessage(stmt, "description"))
    ELSE IF FormatCheck(stmt, "input_format") # NoExc
         THEN FormatCheck(stmt, "input_format")
    ELSE FormatCheck(stmt, "output_format")

\* The class statements evaluated: what the body assigns to each field.
TextValues == <<Absent, PyNone, PyStr("test")>>
FormatValues(model) ==
    <<Absent, PyNone, PyClass(model), PyClass("int"), PyStr(model)>>
BaseClasses == {"BaseCell", "ConcreteCell"}
ClassStmt(base, r, d, i, o, ex) ==
    [name |-> "NewCell", base |-> base, role |-> r, description |-> d,
     input_format |-> i, output_format |-> o, has_execute |-> ex]

\* class NewCell(base): ...  The metaclass runs __init_subclass__; when it
\* raises, the class statement raises and no class is bound.
DefineClass(stmt) ==
    /\ class_result.kind = "none"
    /\ class_stmt' = stmt
    /\ class_result' =
           IF InitSubclass(stmt) = NoExc THEN [kind |-> "class", exc |-> NoExc]
           ELSE [kind |-> "raised", exc |-> InitSubclass(stmt)]
    /\ UNCHANGED << instance_result, assigned, introspection >>
    /\ UNCHANGED outsideTypes

\* NewCell(): ABC refuses a class whose _execute is still abstract.
Instantiate ==
    /\ class_result.kind = "class"
    /\ instance_result.kind = "none"
    /\ instance_result' =
           IF IsAbstract(class_stmt)
           THEN [kind |-> "raised",
                 exc |-> Raise("TypeError",
                               "Can't instantiate abstract class " \o class_stmt.name
                                   \o " with abstract method _execute")]
           ELSE [kind |-> "instance", exc |-> NoExc]
    /\ UNCHANGED << class_stmt, class_result, assigned, introspection >>
    /\ UNCHANGED outsideTypes

\* The class statements of the model.
DefineSomeClass ==
    \E base \in BaseClasses, r \in 1..Len(TextValues), d \in 1..Len(TextValues),
       i \in 1..5, o \in 1..5, ex \in BOOLEAN :
       DefineClass(ClassStmt(base, TextValues[r], TextValues[d],
                             FormatValues("TestInputModel")[i],
                             FormatValues("TestOutputModel")[o], ex))

\* The four required fields in the order they are checked.
RequiredFields == <<"role", "description", "input_format", "output_format">>
\* A field is missing: absent or None, or for a shape anything that is not a
\* subclass of BaseModel.
FieldMissing(stmt, attr) ==
    LET v == GetAttr(stmt, attr) IN
    \/ v.t \in {"absent", "none"}
    \/ /\ attr \in {"input_format", "output_format"}
       /\ ~(v.t = "class" /\ v.s \in BaseModelSubclasses)
MissingFields(stmt) == {k \in 1..4 : FieldMissing(stmt, RequiredFields[k])}
NamesField(e, stmt, attr) ==
    /\ e.cls = "TypeError"
    /\ e.msg = FieldMessage(stmt, attr)
Defined == class_result.kind # "none"

----------------------------------------------------------------------------
(* Schema documents: Python dicts, lists and strings on a heap *)
(*                                                                         *)
(* replace_refs_with_defs works on the caller's objects in place, and a    *)
(* definition spliced into two places is one object referred to twice, so  *)
(* dicts and lists live on a heap and a value is a string or the address   *)
(* of an object. A string is a sequence of tokens (the pieces that         *)
(* str.replace, str.split and the substring test tell apart).              *)

StrVal(w) == [k |-> "str", a |-> 0, w |-> w]
ObjVal(addr) == [k |-> "obj", a |-> addr, w |-> <<>>]
NoVal == NoReference

DictObj(keys, vals) == [k |-> "dict", keys |-> keys, vals |-> vals]
ListObj(vals) == [k |-> "list", keys |-> <<>>, vals |-> vals]

IsDict(h, v) == v.k = "obj" /\ h[v.a].k = "dict"
IsList(h, v) == v.k = "obj" /\ h[v.a].k = "list"

\* position of key in a dict, 0 when the dict does not have it
IndexOf(o, key) ==
    IF \E i \in 1..Len(o.keys) : o.keys[i] = key
    THEN CHOOSE i \in 1..Len(o.keys) : o.keys[i] = key
    ELSE 0
\* key in d
HasKey(o, key) == IndexOf(o, key) # 0
\* d[key]
GetItem(o, key) == o.vals[IndexOf(o, key)]
\* d[key] = val: a new key goes last, a known key keeps its place
SetItem(o, key, val) ==
    IF HasKey(o, key)
    THEN [o EXCEPT !.vals[IndexOf(o, key)] = val]
    ELSE [o EXCEPT !.keys = Append(@, key), !.vals = Append(@, val)]
\* del d[key]
DelItem(o, key) ==
    LET i == IndexOf(o, key)
        Drop(seq) == SubSeq(seq, 1, i - 1) \o SubSeq(seq, i + 1, Len(seq))
    IN [o EXCEPT !.keys = Drop(@), !.vals = Drop(@)]
\* d.update(other) for a dict other
RECURSIVE UpdateFrom(_, _, _)
UpdateFrom(o, other, i) ==
    IF i > Len(other.keys) THEN o
    ELSE UpdateFrom(SetItem(o, other.keys[i], other.vals[i]), other, i + 1)
Update(o, other) == UpdateFrom(o, other, 1)

\* A document written down as a tree: a string, a list of trees, or a dict
\* given by its items in order.
Str(w) == [k |-> "str", v |-> w]
Word(str) == [k |-> "str", v |-> <<str>>]
List(items) == [k |-> "list", v |-> items]
Dict(items) == [k |-> "dict", v |-> items]

\* json.loads-like construction: the objects of a tree are allocated on the
\* heap, children first; gives the heap and the value of the root.
RECURSIVE Load(_, _), LoadItems(_, _, _, _)
Load(h, tree) ==
    IF tree.k = "str" THEN [h |-> h, v |-> StrVal(tree.v)]
    ELSE LET items == LoadItems(h, tree, 1, <<>>)
             obj == IF tree.k = "list" THEN ListObj(items.vals)
                    ELSE DictObj([i \in 1..Len(tree.v) |-> tree.v[i][1]], items.vals)
         IN [h |-> Append(items.h, obj), v |-> ObjVal(Len(items.h) + 1)]
LoadItems(h, tree, i, vals) ==
    IF i > Len(tree.v) THEN [h |-> h, vals |-> vals]
    ELSE LET child == Load(h, IF tree.k = "list" THEN tree.v[i] ELSE tree.v[i][2])
         IN LoadItems(child.h, tree, i + 1, Append(vals, child.v))

\* The objects reachable from a value, and whether one of them contains
\* itself.
Children(h, addr) ==
    {h[addr].vals[i].a : i \in {j \in 1..Len(h[addr].vals) : h[addr].vals[j].k = "obj"}}
RECURSIVE ReachFrom(_, _)
ReachFrom(h, seen) ==
    LET more == seen \cup UNION {Children(h, a) : a \in seen}
    IN IF more = seen THEN seen ELSE ReachFrom(h, more)
Reachable(h, v) == IF v.k = "obj" THEN ReachFrom(h, {v.a}) ELSE {}
IsCircular(h, v) ==
    \E a \in Reachable(h, v) : a \in ReachFrom(h, Children(h, a))

\* The document a value stands for, as Python's == sees it: a dict is the
\* function from its keys to the documents of its values (the order of the
\* keys does not count). Defined when the value is not circular.
RECURSIVE Doc(_, _)
Doc(h, v) ==
    IF v.k # "obj" THEN [k |-> v.k, v |-> v.w]
    ELSE LET o == h[v.a] IN
         IF o.k = "list"
         THEN [k |-> "list", v |-> [i \in 1..Len(o.vals) |-> Doc(h, o.vals[i])]]
         ELSE [k |-> "dict",
               v |-> [key \in {o.keys[i] : i \in 1..Len(o.keys)} |->
                         Doc(h, GetItem(o, key))]]

----------------------------------------------------------------------------
(* Schema dereferencer: replace_refs_with_defs, in kinkernel.utils and in  *)
(* kinkernel.tools                                                         *)

\* str.replace(pat, ""): every occurrence of pat is taken out, left to right
RECURSIVE RemoveAll(_, _)
RemoveAll(w, pat) ==
    IF Len(w) < Len(pat) THEN w
    ELSE IF SubSeq(w, 1, Len(pat)) = pat
         THEN RemoveAll(SubSeq(w, Len(pat) + 1, Len(w)), pat)
         ELSE <<Head(w)>> \o RemoveAll(Tail(w), pat)

\* str.split(sep): the pieces between the separators (at least one piece)
RECURSIVE Split(_, _)
Split(w, sep) ==
    IF \E i \in 1..Len(w) : w[i] = sep
    THEN LET i == CHOOSE i \in 1..Len(w) :
                      w[i] = sep /\ \A j \in 1..(i - 1) : w[j] # sep
         IN <<SubSeq(w, 1, i - 1)>> \o Split(SubSeq(w, i + 1, Len(w)), sep)
    ELSE <<w>>

\* the string a sequence of tokens spells (a dict key)
RECURSIVE Join(_)
Join(w) == IF w = <<>> THEN "" ELSE Head(w) \o Join(Tail(w))

\* "#/$defs/" in tokens
DefsPrefix == <<"#", "/", "$defs", "/">>
\* ref.replace("#/$defs/", "").split("/")
RefPath(w) == Split(RemoveAll(w, DefsPrefix), "/")

\* json.dumps(v): the text as tokens; it fails on a container that contains
\* itself ("Circular reference detected").
RECURSIVE JsonDumps(_, _, _), JsonDumpsItems(_, _, _, _)
JsonDumps(h, v, open) ==
    IF v.k # "obj" THEN [ok |-> TRUE, text |-> <<"\"">> \o v.w \o <<"\"">>]
    ELSE IF v.a \in open THEN [ok |-> FALSE, text |-> <<>>]
    ELSE LET items == JsonDumpsItems(h, v.a, 1, open \cup {v.a}) IN
         IF ~items.ok THEN items
         ELSE IF h[v.a].k = "list"
              THEN [ok |-> TRUE, text |-> <<"[">> \o items.text \o <<"]">>]
              ELSE [ok |-> TRUE, text |-> <<"{">> \o items.text \o <<"}">>]
JsonDumpsItems(h, addr, i, open) ==
    IF i > Len(h[addr].vals) THEN [ok |-> TRUE, text |-> <<>>]
    ELSE LET item == JsonDumps(h, h[addr].vals[i], open)
             rest == JsonDumpsItems(h, addr, i + 1, open)
             key == IF h[addr].k = "dict"
                    THEN <<"\"", h[addr].keys[i], "\"", ": ">> ELSE <<>>
             sep == IF i < Len(h[addr].vals) THEN <<", ">> ELSE <<>>
         IN IF ~item.ok THEN item
            ELSE IF ~rest.ok THEN rest
            ELSE [ok |-> TRUE, text |-> key \o item.text \o sep \o rest.text]

\* "$ref" in text
InText(tok, text) == \E i \in 1..Len(text) : text[i] = tok

\* resolve_ref(ref, defs): follows the path from the definitions table.
RECURSIVE FollowPath(_, _, _, _)
FollowPath(h, path, i, cur) ==
    IF i > Len(path) THEN [exc |-> NoExc, v |-> cur]
    ELSE IF IsDict(h, cur)
         THEN IF HasKey(h[cur.a], Join(path[i]))
              THEN FollowPath(h, path, i + 1, GetItem(h[cur.a], Join(path[i])))
              ELSE [exc |-> Raise("KeyError", Join(path[i])), v |-> NoVal]
    ELSE IF IsList(h, cur)
         THEN [exc |-> Raise("TypeError", "list indices must be integers or slices, not str"),
               v |-> NoVal]
         ELSE [exc |-> Raise("TypeError", "string indices must be integers"),
               v |-> NoVal]
ResolveRef(h, ref, defs) ==
    IF ref.k # "str"
    THEN [exc |-> Raise("AttributeError", "object has no attribute 'replace'"),
          v |-> NoVal]
    ELSE FollowPath(h, RefPath(ref.w), 1, defs)

\* The two implementations differ in two places only.
Implementations == {"utils", "tools"}
\* utils resolves the references of a definition before it splices it
ResolvesDefinitions(impl) == impl = "utils"
\* utils refuses a document with a reference and no $defs
ChecksMissingDefsNever(impl) == FALSE
ChecksMissingDefs(impl) == impl = "utils"

\* obj.update(ref_schema): what it raises when ref_schema is not a dict
UpdateError(h, other) ==
    IF IsDict(h, other) THEN NoExc
    ELSE IF IsList(h, other)
         THEN Raise("TypeError", "cannot convert dictionary update sequence element #0 to a sequence")
         ELSE Raise("ValueError", "dictionary update sequence element #0 has length 1; 2 is required")

\* replace_refs(obj, defs): gives the heap it leaves, the exception it raises
\* (NoExc when it returns) and the value it returns.
RECURSIVE ReplaceRefs(_, _, _, _), ReplaceValues(_, _, _, _, _), ReplaceItems(_, _, _, _, _, _)
ReplaceRefs(impl, h, obj, defs) ==
    IF IsDict(h, obj)
    THEN IF HasKey(h[obj.a], "$ref")
         THEN LET ref == GetItem(h[obj.a], "$ref")
                  h1 == [h EXCEPT ![obj.a] = DelItem(@, "$ref")]
                  found == ResolveRef(h1, ref, defs)
                  ref_schema == found.v
                  text == JsonDumps(h1, ref_schema, {})
                  inner == IF ResolvesDefinitions(impl) /\ text.ok /\ InText("$ref", text.text)
                           THEN ReplaceRefs(impl, h1, ref_schema, defs)
                           ELSE [h |-> h1, exc |-> NoExc, v |-> ref_schema]
                  h2 == inner.h
              IN IF found.exc # NoExc THEN [h |-> h1, exc |-> found.exc, v |-> NoVal]
                 ELSE IF ResolvesDefinitions(impl) /\ ~text.ok
                      THEN [h |-> h1, v |-> NoVal,
                            exc |-> Raise("ValueError", "Circular reference detected")]
                 ELSE IF inner.exc # NoExc THEN [h |-> h2, exc |-> inner.exc, v |-> NoVal]
                 ELSE IF UpdateError(h2, ref_schema) # NoExc
                      THEN [h |-> h2, exc |-> UpdateError(h2, ref_schema), v |-> NoVal]
                 ELSE [h |-> [h2 EXCEPT ![obj.a] = Update(@, h2[ref_schema.a])],
                       exc |-> NoExc, v |-> obj]
         ELSE ReplaceValues(impl, h, obj, defs, 1)
    ELSE IF IsList(h, obj)
         THEN ReplaceItems(impl, h, obj, defs, 1, <<>>)
         ELSE [h |-> h, exc |-> NoExc, v |-> obj]
\* for key, value in obj.items(): obj[key] = replace_refs(value, defs)
ReplaceValues(impl, h, obj, defs, i) ==
    IF i > Len(h[obj.a].vals) THEN [h |-> h, exc |-> NoExc, v |-> obj]
    ELSE LET r == ReplaceRefs(impl, h, h[obj.a].vals[i], defs) IN
         IF r.exc # NoExc THEN r
         ELSE ReplaceValues(impl, [r.h EXCEPT ![obj.a].vals[i] = r.v], obj, defs, i + 1)
\* [replace_refs(item, defs) for item in obj]: a new list
ReplaceItems(impl, h, obj, defs, i, done) ==
    IF i > Len(h[obj.a].vals)
    THEN [h |-> Append(h, ListObj(done)), exc |-> NoExc, v |-> ObjVal(Len(h) + 1)]
    ELSE LET r == ReplaceRefs(impl, h, h[obj.a].vals[i], defs) IN
         IF r.exc # NoExc THEN r
         ELSE ReplaceItems(impl, r.h, obj, defs, i + 1, Append(done, r.v))

\* The keys the reshape moves under "parameters", in the order it reads them.
MovedKeys == <<"properties", "required", "type">>

\* a reshape that forgets `del schema["title"]`
ReshapeKeepingTitle(h, schema) ==
    LET o == h[schema.a]
        parameters == DictObj(MovedKeys, [i \in 1..3 |-> GetItem(o, MovedKeys[i])])
        h1 == [Append(h, parameters) EXCEPT
                  ![schema.a] = SetItem(@, "parameters", ObjVal(Len(h) + 1))]
        named == SetItem(h1[schema.a], "name", GetItem(h1[schema.a], "title"))
        stripped == DelItem(DelItem(DelItem(named, "properties"), "required"), "type")
    IN IF \E i \in 1..3 : ~HasKey(o, MovedKeys[i]) THEN [h |-> h, v |-> NoVal, exc |-> Raise("KeyError", "")]
       ELSE IF ~HasKey(o, "title")
            THEN [h |-> h1, exc |-> Raise("KeyError", "title"), v |-> NoVal]
       ELSE [h |-> [h1 EXCEPT ![schema.a] = stripped], exc |-> NoExc, v |-> schema]

\* Variant: the reshape takes what is there and leaves out what is missing.
ReshapeLenient(h, schema) ==
    LET o == h[schema.a]
        present == SelectSeq(MovedKeys, LAMBDA key : HasKey(o, key))
        parameters == DictObj(present, [i \in 1..Len(present) |-> GetItem(o, present[i])])
        h1 == [Append(h, parameters) EXCEPT
                  ![schema.a] = SetItem(@, "parameters", ObjVal(Len(h) + 1))]
    IN [h |-> h1, exc |-> NoExc, v |-> schema]

\* schema["parameters"] = {...}; schema["name"] = schema["title"]; del ...
Reshape(h, schema) ==
    LET o == h[schema.a]
        lacking == {i \in 1..3 : ~HasKey(o, MovedKeys[i])}
        parameters == DictObj(MovedKeys, [i \in 1..3 |-> GetItem(o, MovedKeys[i])])
        h1 == [Append(h, parameters) EXCEPT
                  ![schema.a] = SetItem(@, "parameters", ObjVal(Len(h) + 1))]
        named == SetItem(h1[schema.a], "name", GetItem(h1[schema.a], "title"))
        stripped == DelItem(DelItem(DelItem(DelItem(named, "title"), "properties"),
                                    "required"), "type")
    IN IF lacking # {}
       THEN [h |-> h, v |-> NoVal,
             exc |-> Raise("KeyError",
                           MovedKeys[CHOOSE i \in lacking : \A j \in lacking : i <= j])]
       ELSE IF ~HasKey(o, "title")
            THEN [h |-> h1, exc |-> Raise("KeyError", "title"), v |-> NoVal]
       ELSE [h |-> [h1 EXCEPT ![schema.a] = stripped], exc |-> NoExc, v |-> schema]

MissingDefsMessage == "Schema does not have any defs however it contains some ref"

\* replace_refs_with_defs(schema) of implementation impl
ReplaceRefsWithDefs(impl, h, schema) ==
    LET o == h[schema.a]
        text == JsonDumps(h, schema, {})
        defs == GetItem(o, "$defs")
        h1 == [h EXCEPT ![schema.a] = DelItem(@, "$defs")]
        walked == ReplaceRefs(impl, h1, schema, defs)
    IN IF ChecksMissingDefs(impl) /\ ~HasKey(o, "$defs") /\ ~text.ok
       THEN [h |-> h, v |-> NoVal,
             exc |-> Raise("ValueError", "Circular reference detected")]
       ELSE IF ChecksMissingDefs(impl) /\ ~HasKey(o, "$defs") /\ InText("$ref", text.text)
            THEN [h |-> h, exc |-> Raise("KeyError", MissingDefsMessage), v |-> NoVal]
       ELSE IF ~HasKey(o, "$defs") THEN Reshape(h, schema)
       ELSE IF walked.exc # NoExc THEN walked
       ELSE Reshape(walked.h, walked.v)

----------------------------------------------------------------------------
(* The schema documents dereferenced *)

\* Number of calls of replace_refs_with_defs made on one document object.
MaxDerefCalls == 2

Ref(w) == Dict(<< <<"$ref", Str(w)>> >>)
RefTo(name) == Ref(DefsPrefix \o <<name>>)
PlainString == Dict(<< <<"type", Word("string")>> >>)
\* a string that holds the reference marker as data
MarkerText == Str(<<"see", " ", "$ref">>)

\* What the property "a" of the document can be.
PropertyNodes == <<
    PlainString,
    Dict(<< <<"type", Word("string")>>, <<"description", MarkerText>> >>),
    RefTo("A"),
    Dict(<< <<"$ref", Str(DefsPrefix \o <<"A">>)>>, <<"description", Word("d")>> >>),
    Dict(<< <<"$ref", Str(DefsPrefix \o <<"A">>)>>, <<"items", RefTo("B")>> >>),
    Dict(<< <<"type", Word("array")>>, <<"items", RefTo("A")>> >>),
    Dict(<< <<"anyOf", List(<<RefTo("A"), PlainString>>)>> >>),
    Ref(<<"A">>),
    Ref(<<"#", "/", "definitions", "/", "A">>),
    RefTo("Z"),
    Ref(DefsPrefix \o <<"A", "/", "properties", "/", "b">>) >>

\* What the property "b" can be; 1 stands for no property "b".
SecondNodes == << NoDocument, RefTo("A") >>

\* What the definitions table can be; 1 stands for no "$defs" key.
DefsTables == <<
    NoDocument,
    Dict(<<>>),
    Dict(<< <<"A", Dict(<< <<"title", Word("A")>>, <<"type", Word("object")>> >>)>>,
            <<"B", PlainString>> >>),
    Dict(<< <<"A", Dict(<< <<"type", Word("object")>>,
                           <<"properties", Dict(<< <<"b", RefTo("B")>> >>)>> >>)>>,
            <<"B", PlainString>> >>),
    Dict(<< <<"A", RefTo("B")>>, <<"B", RefTo("C")>>, <<"C", PlainString>> >>),
    Dict(<< <<"A", Dict(<< <<"type", Word("array")>>,
                           <<"prefixItems", List(<<RefTo("B")>>)>> >>)>>,
            <<"B", Dict(<< <<"type", Word("string")>>,
                           <<"description", MarkerText>> >>)>> >>),
    Dict(<< <<"A", RefTo("A")>> >>),
    Dict(<< <<"A", Dict(<< <<"type", Word("object")>>,
                           <<"properties", Dict(<< <<"s", RefTo("A")>> >>)>> >>)>> >>) >>

\* What the top-level "description" can be; 1 stands for no such key.
Descriptions == << NoDocument, Str(<<"d">>), MarkerText >>

Present(key, tree) == IF tree = NoDocument THEN <<>> ELSE << <<key, tree>> >>

\* A document as pydantic's model_json_schema writes it.
SchemaDocument(a, b, defs, description) ==
    Dict(Present("$defs", DefsTables[defs])
         \o Present("description", Descriptions[description])
         \o << <<"properties",
                 Dict(<< <<"a", PropertyNodes[a]>> >> \o Present("b", SecondNodes[b]))>>,
               <<"required", List(<<Word("a")>>)>>,
               <<"title", Word("T")>>,
               <<"type", Word("object")>> >>)

\* The top-level keys the reshape reads.
ReshapeKeys == <<"properties", "required", "title", "type">>
\* A document without one of them (the schema of a shape with no required
\* field has no "required"), with a plain or a referring property and
\* without or with a definitions table.
Without(tree, key) == Dict(SelectSeq(tree.v, LAMBDA item : item[1] # key))
IncompleteDocuments ==
    [n \in 1..16 |->
        Without(SchemaDocument(IF (n - 1) % 2 = 0 THEN 1 ELSE 3, 1,
                               IF ((n - 1) \div 2) % 2 = 0 THEN 1 ELSE 3, 1),
                ReshapeKeys[((n - 1) \div 4) + 1])]

InitDeref ==
    /\ InitCell /\ InitTypes /\ AdapterIdle
    /\ \/ \E a \in 1..Len(PropertyNodes), b \in 1..Len(SecondNodes),
             defs \in 1..Len(DefsTables), description \in 1..Len(Descriptions) :
             document = SchemaDocument(a, b, defs, description)
       \/ \E n \in 1..Len(IncompleteDocuments) : document = IncompleteDocuments[n]
    /\ heap = Load(<<>>, document).h
    /\ argument = Load(<<>>, document).v
    /\ deref_log = <<>>

\* The owner passes its document to replace_refs_with_defs of one of the two
\* packages; the call works on the owner's objects.
Dereference(impl) ==
    /\ Len(deref_log) < MaxDerefCalls
    /\ LET r == ReplaceRefsWithDefs(impl, heap, argument) IN
       /\ heap' = r.h
       /\ deref_log' = Append(deref_log, [impl |-> impl, before |-> heap,
                                          exc |-> r.exc, v |-> r.v])
    /\ UNCHANGED << document, argument >>
    /\ UNCHANGED outsideDeref

NextDeref == \E impl \in Implementations : Dereference(impl)

SpecDeref == InitDeref /\ [][NextDeref]_vars

----------------------------------------------------------------------------
(* Claims about the dereferencer *)

DerefCalls == 1..Len(deref_log)
\* the heap call i left
HeapAfter(i) == IF i < Len(deref_log) THEN deref_log[i + 1].before ELSE heap
DerefReturned(i) == deref_log[i].exc = NoExc
\* the document call i was given is a tree, as json.loads or
\* model_json_schema build it
GivenTree(i) == ~IsCircular(deref_log[i].before, argument)
\* the reference nodes of a document: its dicts with a "$ref" key
RefNodes(h, v) == {a \in Reachable(h, v) : h[a].k = "dict" /\ HasKey(h[a], "$ref")}

\* C12: whenever replace_refs_with_defs returns, of either package, the
\* document returned has no reference node anywhere and no "$defs".
C12_ResultHasNoReference ==
    \A i \in DerefCalls :
        DerefReturned(i) =>
            /\ RefNodes(HeapAfter(i), deref_log[i].v) = {}
            /\ ~HasKey(HeapAfter(i)[deref_log[i].v.a], "$defs")

\* What full inlining means, on documents as values (no heap, no order):
\* every reference node becomes the fields of the definition its path
\* addresses, itself inlined, over the node's other keys, themselves inlined.
\* A reference that addresses nothing, or a chain longer than depth, gives
\* Unresolved.
Unresolved == [k |-> "unresolved", v |-> <<>>]
HasPrefix(w) == Len(w) > Len(DefsPrefix) /\ SubSeq(w, 1, Len(DefsPrefix)) = DefsPrefix
RECURSIVE Addressed(_, _, _)
Addressed(cur, path, i) ==
    IF i > Len(path) THEN cur
    ELSE IF cur.k = "dict" /\ Join(path[i]) \in DOMAIN cur.v
         THEN Addressed(cur.v[Join(path[i])], path, i + 1)
         ELSE Unresolved
Definition(table, ref) ==
    IF ref.k = "str" /\ HasPrefix(ref.v)
    THEN Addressed(table, Split(SubSeq(ref.v, Len(DefsPrefix) + 1, Len(ref.v)), "/"), 1)
    ELSE Unresolved
RECURSIVE Inlined(_, _, _)
Inlined(d, table, depth) ==
    IF d.k = "list"
    THEN [k |-> "list", v |-> [i \in DOMAIN d.v |-> Inlined(d.v[i], table, depth)]]
    ELSE IF d.k # "dict" THEN d
    ELSE LET others == [key \in DOMAIN d.v \ {"$ref"} |-> Inlined(d.v[key], table, depth)]
         IN IF "$ref" \notin DOMAIN d.v THEN [k |-> "dict", v |-> others]
            ELSE LET def == Definition(table, d.v["$ref"])
                     fields == Inlined(def, table, depth - 1)
                 IN IF depth = 0 \/ def.k # "dict" \/ fields.k # "dict" THEN Unresolved
                    ELSE [k |-> "dict",
                          v |-> [key \in DOMAIN others \cup DOMAIN fields.v |->
                                    IF key \in DOMAIN fields.v THEN fields.v[key]
                                    ELSE others[key]]]
RECURSIVE FullyResolved(_)
FullyResolved(d) ==
    /\ d.k # "unresolved"
    /\ d.k \in {"dict", "list"} => \A key \in DOMAIN d.v : FullyResolved(d.v[key])
\* longer than any chain of distinct definitions in the documents above
MaxChain == 4

\* the document call i was given
Given(i) == Doc(deref_log[i].before, argument)
\* the document call i returned
Result(i) == Doc(HeapAfter(i), deref_log[i].v)
HasTable(d) == d.k = "dict" /\ "$defs" \in DOMAIN d.v
\* the properties of the document call i was given, fully inlined
InlinedProperties(i) == Inlined(Given(i).v["properties"], Given(i).v["$defs"], MaxChain)

\* C13: when kinkernel.utils' replace_refs_with_defs returns for a document
\* all of whose references can be inlined, every reference node has been
\* replaced by the fields of its definition with that definition's own
\* references resolved, whatever the length of the chain and also inside
\* lists: the properties returned are the given properties fully inlined.
C13_EveryReferenceIsInlined ==
    \A i \in DerefCalls :
        (/\ deref_log[i].impl = "utils"
         /\ DerefReturned(i)
         /\ GivenTree(i)
         /\ HasTable(Given(i))
         /\ FullyResolved(InlinedProperties(i))) =>
            /\ ~IsCircular(HeapAfter(i), deref_log[i].v)
            /\ Result(i).v["parameters"].v["properties"] = InlinedProperties(i)

KeySet(o) == {o.keys[j] : j \in 1..Len(o.keys)}
\* the top-level keys the reshape takes away or writes
EnvelopeKeys == {"$defs", "title", "properties", "required", "type", "name", "parameters"}

\* C14: the document returned has name equal to the title given, parameters
\* holding exactly the properties (the object given, resolved), required and
\* type given, no title, properties, required or type at the top, and every
\* other top-level key with the value it had.
C14_ResultIsEnvelope ==
    \A i \in DerefCalls :
        DerefReturned(i) =>
            LET before == deref_log[i].before
                after == HeapAfter(i)
                given == before[argument.a]
                out == after[deref_log[i].v.a]
                parameters == GetItem(out, "parameters")
                kept == KeySet(given) \ EnvelopeKeys
            IN /\ KeySet(out) = kept \cup {"name", "parameters"}
               /\ GetItem(out, "name") = GetItem(given, "title")
               /\ IsDict(after, parameters)
               /\ KeySet(after[parameters.a]) = {"properties", "required", "type"}
               /\ GetItem(after[parameters.a], "properties") = GetItem(given, "properties")
               /\ GetItem(after[parameters.a], "type") = GetItem(given, "type")
               /\ Doc(after, GetItem(after[parameters.a], "required"))
                      = Doc(before, GetItem(given, "required"))
               /\ \A key \in kept :
                      Doc(after, GetItem(out, key)) = Doc(before, GetItem(given, key))
               /\ (GivenTree(i) /\ ~HasTable(Given(i))) =>
                      Result(i).v["parameters"].v["properties"] = Given(i).v["properties"]
               /\ (/\ GivenTree(i) /\ HasTable(Given(i))
                   /\ FullyResolved(InlinedProperties(i))
                   /\ RefNodes(after, deref_log[i].v) = {}) =>
                      Result(i).v["parameters"].v["properties"] = InlinedProperties(i)

\* utils returned the envelope of a document that has a description and a
\* property referring to a definition
C14_Witness ==
    /\ Len(deref_log) = 1
    /\ deref_log[1].impl = "utils"
    /\ DerefReturned(1)
    /\ HasKey(deref_log[1].before[argument.a], "description")
    /\ RefNodes(deref_log[1].before, GetItem(deref_log[1].before[argument.a], "properties")) # {}
    /\ Result(1).v["name"] = Word("T")
    /\ Result(1).v["parameters"].v["properties"].v["a"] = Doc(Load(<<>>, PlainString).h, Load(<<>>, PlainString).v)

\* the document has no "$defs", or an empty one
NoDefinitions(h, v) ==
    HasKey(h[v.a], "$defs") =>
        /\ IsDict(h, GetItem(h[v.a], "$defs"))
        /\ h[GetItem(h[v.a], "$defs").a].keys = <<>>

ReshapedDoc(d) ==
    [k |-> "dict",
     v |-> [key \in (DOMAIN d.v \ EnvelopeKeys) \cup {"name", "parameters"} |->
               IF key = "name" THEN d.v["title"]
               ELSE IF key = "parameters"
                    THEN [k |-> "dict",
                          v |-> [m \in {"properties", "required", "type"} |-> d.v[m]]]
                    ELSE d.v[key]]]

\* C16: for a document without any reference node, with "$defs" absent or
\* empty (and with the four keys the reshape reads), replace_refs_with_defs
\* returns, and what it returns is just the reshape of the document, whatever
\* strings the document holds.
C16_ReferenceFreeDocumentIsReshaped ==
    \A i \in DerefCalls :
        (/\ GivenTree(i)
         /\ RefNodes(deref_log[i].before, argument) = {}
         /\ NoDefinitions(deref_log[i].before, argument)
         /\ {"title", "properties", "required", "type"}
                \subseteq KeySet(deref_log[i].before[argument.a])) =>
            /\ DerefReturned(i)
            /\ Result(i) = ReshapedDoc(Given(i))

\* C17: a call of replace_refs_with_defs, whether it returns or raises,
\* leaves the document passed to it as it was, and a second call of the same
\* implementation with the same document object has the same outcome.
C17_CallLeavesDocumentUnchanged ==
    \A i \in DerefCalls :
        GivenTree(i) =>
            /\ ~IsCircular(HeapAfter(i), argument)
            /\ Doc(HeapAfter(i), argument) = Given(i)
            /\ (i > 1 /\ deref_log[i].impl = deref_log[i - 1].impl) =>
                   /\ deref_log[i].exc = deref_log[i - 1].exc
                   /\ DerefReturned(i) => Result(i) = Result(i - 1)

----------------------------------------------------------------------------
(* The function-calling adapter: OpenAiFunctionCell                        *)

\* Number of calls of ainvoke made on one adapter.
MaxInvocations == 2

\* json.loads of a text given as tokens: the tree it spells, or a failure
\* (JSONDecodeError) where the tokens are not a JSON value.
At(text, i) == IF i \in 1..Len(text) THEN text[i] ELSE ""
NoParse == [ok |-> FALSE, tree |-> NoDocument, next |-> 0]
RECURSIVE ParseValue(_, _), ParseItems(_, _, _, _)
ParseValue(text, i) ==
    CASE At(text, i) = "\"" ->
            IF \E j \in (i + 1)..Len(text) : text[j] = "\""
            THEN LET j == CHOOSE j \in (i + 1)..Len(text) :
                              /\ text[j] = "\""
                              /\ \A j2 \in (i + 1)..(j - 1) : text[j2] # "\""
                 IN [ok |-> TRUE, tree |-> Str(SubSeq(text, i + 1, j - 1)), next |-> j + 1]
            ELSE NoParse
      [] At(text, i) = "[" ->
            IF At(text, i + 1) = "]"
            THEN [ok |-> TRUE, tree |-> List(<<>>), next |-> i + 2]
            ELSE ParseItems(text, i + 1, "list", <<>>)
      [] At(text, i) = "{" ->
            IF At(text, i + 1) = "}"
            THEN [ok |-> TRUE, tree |-> Dict(<<>>), next |-> i + 2]
            ELSE ParseItems(text, i + 1, "dict", <<>>)
      [] OTHER -> NoParse
ParseItems(text, i, kind, acc) ==
    LET keyed == kind = "dict"
        named == At(text, i) = "\"" /\ At(text, i + 2) = "\"" /\ At(text, i + 3) = ": "
        item == ParseValue(text, IF keyed THEN i + 4 ELSE i)
        items == Append(acc, IF keyed THEN <<text[i + 1], item.tree>> ELSE item.tree)
        close == IF keyed THEN "}" ELSE "]"
    IN IF keyed /\ ~named THEN NoParse
       ELSE IF ~item.ok THEN NoParse
       ELSE IF At(text, item.next) = ", " THEN ParseItems(text, item.next + 1, kind, items)
       ELSE IF At(text, item.next) = close
            THEN [ok |-> TRUE, tree |-> [k |-> kind, v |-> items], next |-> item.next + 1]
       ELSE NoParse
JsonLoadsText(text) ==
    LET r == ParseValue(text, 1)
    IN IF r.ok /\ r.next = Len(text) + 1 THEN r ELSE NoParse

\* json.dumps of a document written as a tree
DumpsTree(tree) == LET l == Load(<<>>, tree) IN JsonDumps(l.h, l.v, {}).text

\* TestInputModel.model_json_schema()
TestInputSchema ==
    Dict(<< <<"properties",
              Dict(<< <<"x", Dict(<< <<"title", Word("X")>>, <<"type", Word("integer")>> >>)>>,
                      <<"y", Dict(<< <<"title", Word("Y")>>, <<"type", Word("integer")>> >>)>> >>)>>,
            <<"required", List(<<Word("x"), Word("y")>>)>>,
            <<"title", Word("TestInputModel")>>,
            <<"type", Word("object")>> >>)
\* the schema MockBaseCell.get_input_format dumps
MockInputSchema ==
    Dict(<< <<"properties",
              Dict(<< <<"arg1", Dict(<< <<"type", Word("string")>> >>)>>,
                      <<"arg2", Dict(<< <<"type", Word("number")>> >>)>> >>)>> >>)
\* the schema of an input shape with a field of another shape: the field is
\* a reference into "$defs"
NestedInputSchema == SchemaDocument(3, 1, 3, 1)

\* The cells an adapter is built on: the concrete test cell and the test
\* doubles, one of them with a nested input shape.
CellClasses == << "ConcreteCell", "MockBaseCell", "MockBaseCellFail",
                  "MockBaseCellWithInvalidJSON", "MockBaseCellWithNestedModel" >>

\* cell.get_role()
GetRole(cls) == IF cls = "ConcreteCell" THEN PyStr("test") ELSE PyStr("test_role")
\* cell.get_description()
GetDescription(cls) ==
    IF cls = "ConcreteCell" THEN PyStr("A test cell") ELSE PyStr("test_description")
\* cell.get_input_format(): the schema as JSON text, or None
GetInputFormat(cls) ==
    CASE cls = "ConcreteCell" -> StrVal(DumpsTree(TestInputSchema))
      [] cls = "MockBaseCell" -> StrVal(DumpsTree(MockInputSchema))
      [] cls = "MockBaseCellFail" -> NoVal
      [] cls = "MockBaseCellWithInvalidJSON" -> StrVal(<<"{", "invalid_json", "}">>)
      [] OTHER -> StrVal(DumpsTree(NestedInputSchema))

\* OpenAiFunctionCell.__init__(cell)
NewFunctionCell(cls) ==
    [cell |-> cls, name |-> GetRole(cls), description |-> GetDescription(cls)]

\* The property args: json.loads(self.cell.get_input_format())["properties"];
\* only the JSONDecodeError is caught.
Args(cls) ==
    LET text == GetInputFormat(cls)
        parsed == JsonLoadsText(text.w)
        l == Load(<<>>, parsed.tree)
    IN IF text = NoVal
       THEN [kind |-> "raised", h |-> <<>>, v |-> NoVal,
             exc |-> Raise("ValueError",
                           "No input schema found in the cell: " \o GetRole(cls).s)]
       ELSE IF ~parsed.ok
       THEN [kind |-> "raised", h |-> <<>>, v |-> NoVal,
             exc |-> Raise("ValueError",
                           "Invalid JSON input schema: Expecting property name enclosed in double quotes")]
       ELSE IF ~IsDict(l.h, l.v)
       THEN [kind |-> "raised", h |-> l.h, v |-> NoVal,
             exc |-> Raise("TypeError", "indices must be integers")]
       ELSE IF ~HasKey(l.h[l.v.a], "properties")
       THEN [kind |-> "raised", h |-> l.h, v |-> NoVal,
             exc |-> Raise("KeyError", "properties")]
       ELSE [kind |-> "returned", h |-> l.h, v |-> GetItem(l.h[l.v.a], "properties"),
             exc |-> NoExc]

\* What ainvoke is given: a dict, a str, or an object json cannot encode
\* (the tests pass a lambda).
DictInput(d) == [t |-> "dict", d |-> d, s |-> NoText]
StrInput(text) == [t |-> "str", d |-> NoDict, s |-> text]
FunctionInput == [t |-> "function", d |-> NoDict, s |-> NoText]

\* {"x": 1, "y": 2}, {"x": "not_a_number", "y": 2}, {"x": 1}, {"error": "simulate"}
DictValid == [x |-> PyInt(1), y |-> PyInt(2)]
DictWrongType == [x |-> PyStr("not_a_number"), y |-> PyInt(2)]
DictMissingField == [x |-> PyInt(1), y |-> Absent]
DictErrorSimulate == [error |-> PyStr("simulate")]

\* json.dumps(d) of a dict: the text that spells the object
JsonDumpsDict(d) == [wellformed |-> TRUE, quoted |-> 0, obj |-> d]
\* json.dumps(s) of a str: the JSON string that holds s, whatever s spells
JsonDumpsStr(text) == [text EXCEPT !.quoted = @ + 1]

\* json.dumps(input)
JsonDumpsInput(input) ==
    CASE input.t = "dict" -> [ok |-> TRUE, text |-> JsonDumpsDict(input.d), exc |-> NoExc]
      [] input.t = "str" -> [ok |-> TRUE, text |-> JsonDumpsStr(input.s), exc |-> NoExc]
      [] OTHER -> [ok |-> FALSE, text |-> NoText,
                   exc |-> Raise("TypeError",
                                 "Object of type function is not JSON serializable")]

AInvokeInputs ==
    << DictInput(DictValid), DictInput(DictWrongType), DictInput(DictMissingField),
       DictInput(DictErrorSimulate),
       StrInput(JsonDumpsDict(DictValid)), StrInput(JsonDumpsDict(DictWrongType)),
       StrInput(JsonDumpsDict(DictErrorSimulate)), StrInput(TextMalformed),
       FunctionInput >>

\* The characters of a text, for f"Processed {input_json}".
RECURSIVE MembersToStr(_, _, _)
MembersToStr(d, keys, first) ==
    IF keys = <<>> THEN ""
    ELSE IF FieldOf(d, Head(keys)) = Absent THEN MembersToStr(d, Tail(keys), first)
    ELSE (IF first THEN "" ELSE ", ")
         \o "\"" \o Head(keys) \o "\": " \o ValueToJson(d[Head(keys)])
         \o MembersToStr(d, Tail(keys), FALSE)
RECURSIVE Quoted(_, _)
Quoted(str, n) == IF n = 0 THEN str ELSE "\"" \o Quoted(str, n - 1) \o "\""
TextToStr(text) ==
    Quoted("{" \o MembersToStr(text.obj, <<"x", "y", "error">>, TRUE)
               \o (IF text.wellformed THEN "}" ELSE ""),
           text.quoted)

\* await cell.run(input_json): BaseCell.run with ConcreteCell's step, and the
\* run of the test doubles.
Run(cls, text) ==
    CASE cls = "ConcreteCell" ->
            LET given == ValidateInputPhase(TestInputModel, TestOutputModel, text)
                made == RevalidateOutput(TestOutputModel, Execute(given.obj))
            IN IF ~given.ok THEN OutputDict(ErrorResponse(given.exc))
               ELSE IF ~made.ok THEN OutputDict(ErrorResponse(made.exc))
               ELSE OutputDict(SuccessResponse(made.obj))
      [] cls = "MockBaseCellFail" /\ text = JsonDumpsDict(DictErrorSimulate) -> NoDict
      [] OTHER -> [key \in {"content"} |-> PyStr("Processed " \o TextToStr(text))]

\* Variant: the content is read with dict.get.
CellOutputContentOrNone(cell_output) ==
    IF "content" \notin DOMAIN cell_output
    THEN [kind |-> "returned", exc |-> NoExc, v |-> PyNone]
    ELSE [kind |-> "returned", exc |-> NoExc, v |-> cell_output["content"]]

\* if "content" not in cell_output: raise KeyError(...); return cell_output["content"]
CellOutputContent(cell_output) ==
    IF "content" \notin DOMAIN cell_output
    THEN [kind |-> "raised", v |-> PyNone,
          exc |-> Raise("KeyError", "The 'content' key is missing in the cell's output: {}")]
    ELSE [kind |-> "returned", exc |-> NoExc, v |-> cell_output["content"]]

\* ainvoke(input): the texts run was called with, what run returned, and
\* what ainvoke returns or raises.
AInvoke(cls, input) ==
    LET dumped == JsonDumpsInput(input)
        cell_output == Run(cls, dumped.text)
        given == CellOutputContent(cell_output)
    IN IF ~dumped.ok
       THEN [input |-> input, sent |-> <<>>, cell_output |-> NoDict,
             kind |-> "raised", v |-> PyNone,
             exc |-> Raise("TypeError",
                           "Input could not be serialized to JSON: " \o dumped.exc.msg)]
       ELSE [input |-> input, sent |-> <<dumped.text>>, cell_output |-> cell_output,
             kind |-> given.kind, v |-> given.v, exc |-> given.exc]

\* tool = OpenAiFunctionCell(cell)
Construct(cls) ==
    /\ function_cell = NoFunctionCell
    /\ function_cell' = NewFunctionCell(cls)
    /\ UNCHANGED << args_result, ainvoke_log >>
    /\ UNCHANGED outsideAdapter

\* tool.args
ReadArgs ==
    /\ function_cell # NoFunctionCell
    /\ args_result = NoResult
    /\ args_result' = Args(function_cell.cell)
    /\ UNCHANGED << function_cell, ainvoke_log >>
    /\ UNCHANGED outsideAdapter

\* await tool.ainvoke(input)
Invoke(input) ==
    /\ function_cell # NoFunctionCell
    /\ Len(ainvoke_log) < MaxInvocations
    /\ ainvoke_log' = Append(ainvoke_log, AInvoke(function_cell.cell, input))
    /\ UNCHANGED << function_cell, args_result >>
    /\ UNCHANGED outsideAdapter

NextAdapter ==
    \/ \E k \in 1..Len(CellClasses) : Construct(CellClasses[k])
    \/ ReadArgs
    \/ \E k \in 1..Len(AInvokeInputs) : Invoke(AInvokeInputs[k])

SpecAdapter == Init /\ [][NextAdapter]_vars

----------------------------------------------------------------------------
(* Claims about the adapter *)

Adapted == function_cell # NoFunctionCell
ArgsReturned == args_result.kind = "returned"
\* replace_refs_with_defs(impl) applied to the input schema of the wrapped
\* cell, for a cell whose get_input_format gives a JSON text
DereferencedSchema(impl) ==
    LET l == Load(<<>>, JsonLoadsText(GetInputFormat(function_cell.cell).w).tree)
    IN ReplaceRefsWithDefs(impl, l.h, l.v)

\* C18: the adapter's name is the cell's role, its description the cell's
\* description, and the parameter schema it exposes (args) is the
\* "parameters" of the dereferenced input schema, with no reference node.
C18_AdapterExposesDereferencedParameters ==
    Adapted =>
        /\ function_cell.name = GetRole(function_cell.cell)
        /\ function_cell.description = GetDescription(function_cell.cell)
        /\ ArgsReturned =>
               /\ RefNodes(args_result.h, args_result.v) = {}
               /\ \A impl \in Implementations :
                      LET r == DereferencedSchema(impl) IN
                      r.exc = NoExc =>
                          Doc(args_result.h, args_result.v)
                              = Doc(r.h, GetItem(r.h[r.v.a], "parameters"))

Invocations == 1..Len(ainvoke_log)

\* C19: ainvoke JSON-encodes its argument, calls run exactly once, with that
\* text, and returns the "content" of what run returned; when what run
\* returned has no "content", ainvoke raises a KeyError and returns nothing.
C19_InvokeReturnsContentOfOneRun ==
    \A i \in Invocations :
        LET call == ainvoke_log[i]
            encoded == JsonDumpsInput(call.input)
        IN encoded.ok =>
               /\ call.sent = << encoded.text >>
               /\ call.cell_output = Run(function_cell.cell, encoded.text)
               /\ IF "content" \in DOMAIN call.cell_output
                  THEN call.kind = "returned" /\ call.v = call.cell_output["content"]
                  ELSE call.kind = "raised" /\ call.exc.cls = "KeyError"

\* One adapter has answered a call with the content of its cell's run and
\* another call, whose run returned a dict without "content", with a KeyError.
C19_Witness ==
    \E i, j \in Invocations :
        /\ ainvoke_log[i].kind = "returned"
        /\ Len(ainvoke_log[i].sent) = 1
        /\ ainvoke_log[i].v = ainvoke_log[i].cell_output["content"]
        /\ ainvoke_log[j].kind = "raised"
        /\ Len(ainvoke_log[j].sent) = 1
        /\ "content" \notin DOMAIN ainvoke_log[j].cell_output
        /\ ainvoke_log[j].exc.cls = "KeyError"

\* C20: for every dictionary d, ainvoke given the JSON text of d answers as
\* ainvoke given d itself: the same content returned, or the same failure.
C20_JsonTextInvokesAsDict ==
    \A i, j \in Invocations :
        LET a == ainvoke_log[i]
            b == ainvoke_log[j]
        IN (a.input.t = "dict" /\ b.input.t = "str"
              /\ b.input.s = JsonDumpsDict(a.input.d)) =>
               /\ b.kind = a.kind
               /\ b.v = a.v
               /\ b.exc = a.exc

----------------------------------------------------------------------------
(* Further claims about the dereferencer *)

\* the definitions a document refers to, by name
RECURSIVE RefNames(_)
RefNames(d) ==
    IF d.k \notin {"dict", "list"} THEN {}
    ELSE (IF d.k = "dict" /\ "$ref" \in DOMAIN d.v /\ HasPrefix(d.v["$ref"].v)
          THEN {d.v["$ref"].v[Len(DefsPrefix) + 1]} ELSE {})
         \cup UNION {RefNames(d.v[key]) : key \in DOMAIN d.v}
\* the definitions reached from a set of names through the references of
\* the definitions
RECURSIVE NamesReached(_, _)
NamesReached(table, names) ==
    LET more == names \cup UNION {RefNames(table.v[n]) : n \in names \cap DOMAIN table.v}
    IN IF more = names THEN names ELSE NamesReached(table, more)
\* the definitions that refer to themselves, directly or transitively
SelfReferring(table) ==
    {n \in DOMAIN table.v : n \in NamesReached(table, RefNames(table.v[n]))}
\* the properties of the document refer to a definition on a cycle
RefersToCycle(d) ==
    /\ HasTable(d) /\ d.v["$defs"].k = "dict" /\ "properties" \in DOMAIN d.v
    /\ NamesReached(d.v["$defs"], RefNames(d.v["properties"]))
           \cap SelfReferring(d.v["$defs"]) # {}

\* C23: on a document whose properties refer to a definition that refers to
\* itself, directly or transitively, replace_refs_with_defs of either package
\* fails: it does not return a document.
C23_CyclicDefinitionFails ==
    \A i \in DerefCalls :
        (GivenTree(i) /\ RefersToCycle(Given(i))) =>
            /\ deref_log[i].exc # NoExc
            /\ ~DerefReturned(i)

\* the document has a reference node whose path does not start with
\* "#/$defs/" or addresses nothing in the table
RECURSIVE HasMalformedRef(_, _)
HasMalformedRef(d, table) ==
    /\ d.k \in {"dict", "list"}
    /\ \/ /\ d.k = "dict" /\ "$ref" \in DOMAIN d.v
          /\ \/ ~HasPrefix(d.v["$ref"].v)
             \/ Definition(table, d.v["$ref"]) = Unresolved
       \/ \E key \in DOMAIN d.v : HasMalformedRef(d.v[key], table)
GivenMalformedRef(i) ==
    /\ GivenTree(i)
    /\ HasTable(Given(i)) /\ "properties" \in DOMAIN Given(i).v
    /\ HasMalformedRef(Given(i).v["properties"], Given(i).v["$defs"])

\* C24: a document with a definitions table and, in its properties, a
\* reference node whose path lacks the prefix "#/$defs/" or names a slot the
\* table does not have makes replace_refs_with_defs of either package fail;
\* nothing is returned.
C24_MalformedReferenceFails ==
    \A i \in DerefCalls : GivenMalformedRef(i) => ~DerefReturned(i)

\* what the other package's replace_refs_with_defs does with the document
\* call i was given
OtherImplementation(impl) == CHOOSE other \in Implementations : other # impl
OtherOutcome(i) ==
    ReplaceRefsWithDefs(OtherImplementation(deref_log[i].impl), deref_log[i].before, argument)

\* C29: kinkernel.tools.replace_refs_with_defs and
\* kinkernel.utils.replace_refs_with_defs do the same with every schema
\* document: both fail, or both return, and then equal documents.
C29_ImplementationsAgree ==
    \A i \in DerefCalls :
        GivenTree(i) =>
            LET other == OtherOutcome(i) IN
            /\ DerefReturned(i) <=> other.exc = NoExc
            /\ DerefReturned(i) =>
                   /\ ~IsCircular(HeapAfter(i), deref_log[i].v)
                   /\ ~IsCircular(other.h, other.v)
                   /\ Result(i) = Doc(other.h, other.v)

\* the top-level keys of the document call i was given
GivenKeys(i) == KeySet(deref_log[i].before[argument.a])
Complete(i) == \A k \in 1..Len(ReshapeKeys) : ReshapeKeys[k] \in GivenKeys(i)

\* the document call i was given, without its table, has only references
\* that can be inlined (none when it has no table)
GivenBody(i) ==
    [k |-> "dict", v |-> [key \in DOMAIN Given(i).v \ {"$defs"} |-> Given(i).v[key]]]
ReferencesSound(i) ==
    HasTable(Given(i)) =>
        FullyResolved(Inlined(GivenBody(i), Given(i).v["$defs"], MaxChain))

\* C30: replace_refs_with_defs returns only for a document that has the four
\* top-level keys title, properties, required and type; given a document
\* that lacks one of them it returns nothing and raises, and what it raises
\* is a KeyError unless a reference of the document fails first.
C30_IncompleteDocumentFails ==
    \A i \in DerefCalls :
        GivenTree(i) =>
            /\ DerefReturned(i) => Complete(i)
            /\ ~Complete(i) =>
                   /\ ~DerefReturned(i)
                   /\ deref_log[i].v = NoVal
                   /\ ReferencesSound(i) => deref_log[i].exc.cls = "KeyError"

\* The schema of a shape without required fields, with its property
\* referring to a definition: the first call on it raised KeyError('required').
C30_Witness ==
    /\ Len(deref_log) = 1
    /\ GivenKeys(1) = {"$defs", "properties", "title", "type"}
    /\ RefNodes(deref_log[1].before, argument) # {}
    /\ deref_log[1].exc = Raise("KeyError", "required")

----------------------------------------------------------------------------
(* Introspection: the class methods get_role, get_description,             *)
(* get_input_format and get_output_format                                  *)

\* TestOutputModel.model_json_schema()
TestOutputSchema ==
    Dict(<< <<"properties",
              Dict(<< <<"result", Dict(<< <<"title", Word("Result")>>,
                                          <<"type", Word("integer")>> >>)>> >>)>>,
            <<"required", List(<<Word("result")>>)>>,
            <<"title", Word("TestOutputModel")>>,
            <<"type", Word("object")>> >>)
SchemaOf(model) == IF model = "TestInputModel" THEN TestInputSchema ELSE TestOutputSchema

IntrospectionOps == <<"get_role", "get_description", "get_input_format", "get_output_format">>
Fields == <<"role", "description", "input_format", "output_format">>
OpField(op) == Fields[CHOOSE k \in 1..4 : IntrospectionOps[k] = op]

\* cls.attr when the method is called: what was assigned to the class last,
\* else the class body, else the base class; Absent when no class on the
\* way has the attribute (BaseCell only annotates the four fields).
ClassAttr(stmt, given, attr) ==
    IF given[attr] # Absent THEN given[attr] ELSE GetAttr(stmt, attr)

DoesNotDefine(stmt, attr) ==
    "'" \o stmt.name \o "' class does not define a"
        \o (IF attr \in {"input_format", "output_format"} THEN "n" ELSE "")
        \o " '" \o attr \o "'."

\* if cls.attr is not None: return cls.attr (the two texts) or
\* json.dumps(cls.attr.model_json_schema(), indent=2) (the two shapes);
\* raise NotImplementedError(...) otherwise.
Introspect(stmt, given, op) ==
    LET attr == OpField(op)
        v == ClassAttr(stmt, given, attr)
    IN IF v = Absent
       THEN [op |-> op, before |-> given, kind |-> "raised", v |-> PyNone, text |-> <<>>,
             exc |-> Raise("AttributeError",
                           "type object '" \o stmt.name \o "' has no attribute '"
                               \o attr \o "'")]
       ELSE IF v = PyNone
       THEN [op |-> op, before |-> given, kind |-> "raised", v |-> PyNone, text |-> <<>>,
             exc |-> Raise("NotImplementedError", DoesNotDefine(stmt, attr))]
       ELSE IF attr \in {"role", "description"}
       THEN [op |-> op, before |-> given, kind |-> "returned", exc |-> NoExc, v |-> v, text |-> <<>>]
       ELSE IF v.t = "class" /\ v.s \in {"TestInputModel", "TestOutputModel"}
       THEN [op |-> op, before |-> given, kind |-> "returned", exc |-> NoExc, v |-> PyNone,
             text |-> DumpsTree(SchemaOf(v.s))]
       ELSE [op |-> op, before |-> given, kind |-> "raised", v |-> PyNone, text |-> <<>>,
             exc |-> Raise("AttributeError", "no attribute 'model_json_schema'")]

\* NewCell.attr = None, after the class statement (a test nulls one field)
AssignNone(attr) ==
    /\ class_result.kind = "class"
    /\ assigned = NothingAssigned
    /\ assigned' = [assigned EXCEPT ![attr] = PyNone]
    /\ UNCHANGED << class_stmt, class_result, instance_result, introspection >>
    /\ UNCHANGED outsideTypes

\* NewCell.get_role() and the three others
CallIntrospection(op) ==
    /\ class_result.kind = "class"
    /\ introspection' = Introspect(class_stmt, assigned, op)
    /\ UNCHANGED << class_stmt, class_result, instance_result, assigned >>
    /\ UNCHANGED outsideTypes

NextTypes ==
    \/ DefineSomeClass
    \/ Instantiate
    \/ \E k \in 1..4 : AssignNone(Fields[k])
    \/ \E k \in 1..4 : CallIntrospection(IntrospectionOps[k])

SpecTypes == Init /\ [][NextTypes]_vars

\* the field the last introspection call read, as the class had it then
Introspected == introspection.kind # "none"
FieldRead == ClassAttr(class_stmt, introspection.before, OpField(introspection.op))
IsShapeOp == OpField(introspection.op) \in {"input_format", "output_format"}
IsModelClass(v) == v.t = "class" /\ v.s \in {"TestInputModel", "TestOutputModel"}

\* C21: each of the four class methods returns the declared value (for a
\* shape, the JSON text of its schema) when the field is there, and raises
\* the "does not define" NotImplementedError that names the field when the
\* field is absent at call time: never assigned, assigned None in the class
\* body, or assigned None after the definition.
C21_IntrospectionReturnsOrDiagnoses ==
    Introspected =>
        /\ (~IsShapeOp /\ FieldRead \notin {Absent, PyNone}) =>
               /\ introspection.kind = "returned"
               /\ introspection.v = FieldRead
        /\ (IsShapeOp /\ IsModelClass(FieldRead)) =>
               /\ introspection.kind = "returned"
               /\ JsonLoadsText(introspection.text).ok
               /\ JsonLoadsText(introspection.text).tree = SchemaOf(FieldRead.s)
        /\ FieldRead \in {Absent, PyNone} =>
               /\ introspection.kind = "raised"
               /\ introspection.exc
                      = Raise("NotImplementedError",
                              DoesNotDefine(class_stmt, OpField(introspection.op)))

----------------------------------------------------------------------------
(* Further claims about run *)

\* The steps a call can take from one phase to the next: Idle to the gate
\* (taken at once, or after waiting), then the phases inside the gate; a
\* call ends by returning its envelope from Responding, or when an exception
\* that no except clause catches leaves the execution step.
PhaseSteps ==
    { <<"idle", "validating_input">>, <<"idle", "waiting">>,
      <<"waiting", "validating_input">>,
      <<"validating_input", "executing">>, <<"validating_input", "responding">>,
      <<"executing", "validating_output">>, <<"executing", "responding">>,
      <<"executing", "raised">>,
      <<"validating_output", "responding">>,
      <<"responding", "returned">> }
\* the phases from which a call goes to Responding with an error response
FailingPhases == {"validating_input", "executing", "validating_output"}
PhaseStep(c) ==
    pc'[c] # pc[c] =>
        /\ <<pc[c], pc'[c]>> \in PhaseSteps
        /\ pc'[c] = "responding" =>
               IF response'[c].type = SUCCESS
               THEN pc[c] = "validating_output"
               ELSE response'[c].type = ERROR /\ pc[c] \in FailingPhases
        /\ pc[c] \in {"idle", "waiting"} =>
               /\ ~async_mutex[GateOf(cell'[c])].locked \/ pc'[c] = "waiting"
               /\ pc'[c] = "validating_input" => async_mutex'[GateOf(cell'[c])].locked
\* a gate is taken only by a call that leaves Idle (or the wait that follows
\* it) and freed only by a call that ends
GateStep(i) ==
    /\ (async_mutex'[i].locked /\ ~async_mutex[i].locked) =>
           \E c \in Calls : /\ pc[c] \in {"idle", "waiting"}
                            /\ pc'[c] = "validating_input" /\ cell'[c] = i
    /\ (async_mutex[i].locked /\ ~async_mutex'[i].locked) =>
           \E c \in Calls : /\ pc[c] \in {"responding", "executing"}
                            /\ pc'[c] \in EndPhases /\ cell[c] = i

RunStep == \E c \in Calls : pc'[c] # pc[c]
\* the step of call c did what ConcreteCell._execute does: it returned the
\* sum, and raised nothing
StepAsDefined(c) ==
    /\ ~StepRaised(c)
    /\ output_data[c] # NoOutput => output_data[c] = Execute(input_data[c])
\* no call on instance i is between its start and its end
AtRest(i) == \A c \in Calls : cell[c] = i => pc[c] \in EndPhases

AwaitsOwnInstance(c, d) == awaited[c] = d /\ cell[d] = cell[c]

\* C28: when the step of a call awaits run on the call's own instance, the
\* inner call waits at the gate and the outer call waits for it, neither
\* has an envelope, and no step changes that.
C28_GateNotReentrant ==
    /\ [](\A c, d \in Calls :
             AwaitsOwnInstance(c, d) =>
                 /\ pc[c] = "awaiting_run" /\ pc[d] = "waiting"
                 /\ async_mutex[GateOf(cell[c])].locked
                 /\ output[c] = NoDict /\ output[d] = NoDict)
    /\ [][\A c, d \in Calls :
             AwaitsOwnInstance(c, d) => AwaitsOwnInstance(c, d)']_vars

\* The step of call 1 awaits call 2 on the instance of call 1.
C28_Witness ==
    /\ AwaitsOwnInstance(1, 2)
    /\ pc[1] = "awaiting_run" /\ execute_calls[1] = 1
    /\ pc[2] = "waiting" /\ validate_calls[2] = 0

\* the step of call c, a call on instance i, is invoked and never comes back
StepNeverReturns(c, i) == <>[](pc[c] = "executing" /\ cell[c] = i)
\* the steps invoked for call c come back: c is not in its step for ever
StepComesBack(c) == []<>(pc[c] # "executing")
\* call c has been issued and is not over
InProgress(c) == pc[c] \in {"waiting"} \cup GatePhases

\* C22: when the step of a call never comes back, the gate of its instance
\* stays locked from some moment on, and every call issued after it on the
\* same instance is waiting at the gate at every moment, without an
\* envelope, however the event loop schedules.
C22_StepThatNeverReturnsBlocksGate ==
    \A c \in Calls : \A d \in Calls : \A i \in Instances :
        (d > c /\ StepNeverReturns(c, i)) =>
            /\ <>[](async_mutex[GateOf(i)].locked)
            /\ [](cell[d] = i => (pc[d] = "waiting" /\ output[d] = NoDict))

\* Call 1 is in its step, holding the gate, and call 2 waits on the same
\* instance.
C22_Witness ==
    /\ pc[1] = "executing" /\ pc[2] = "waiting"
    /\ cell[2] = cell[1]
    /\ async_mutex[GateOf(cell[1])] = [locked |-> TRUE, waiters |-> << 2 >>]

====
